---- MODULE Spec2Model ----
(***************************************************************************)
(* json-to-sqlite: the database worker (public/workers/db-worker.js) that  *)
(* flattens parsed objects, infers a schema from a sample, creates the     *)
(* table, evolves it with ALTER TABLE and inserts rows in batches; and the *)
(* hand-written boundary scanner processChunk of the first worker kept in  *)
(* public/sw.js.                                                           *)
(*                                                                         *)
(* The specifications of the module:                                       *)
(*   Spec          - host, worker start-up, parser, loader and SQL engine  *)
(*   SpecDamaged   - Spec for streams that may hold malformed objects      *)
(*   SpecInherited - Spec for streams with a key Object.prototype defines  *)
(*   SpecInfer     - schemaBuilder.add over a sample of objects            *)
(*   SpecFlat      - flattenObject and detectType on nested objects        *)
(*   SpecScan      - processChunk fed a text in arbitrary chunks, then     *)
(*                   'end'                                                 *)
(*   SpecOffline   - the service worker's cache and the start-up requests  *)
(*   SpecV3        - the loader of the later worker kept in public/sw.js   *)
(*   SpecSql       - the SQL text built for CREATE, ALTER and INSERT       *)
(***************************************************************************)
EXTENDS Integers, Sequences, FiniteSets, TLC

VARIABLES
    \* ---- db-worker.js module state (lines 7-19) ----
    db,                 \* the sql.js database: <<>> when null, else <<engine state>>
    sampleSize,
    batchSize,
    schema,             \* <<>> when null, else <<sequence of columns>>
    columns,            \* schemaBuilder.columns, in insertion order
    objectCount,
    rowsProcessed,
    currentBatch,
    existingColumnsSet,
    pendingColumns,
    parserWriter,       \* FALSE when null
    \* ---- environment of the worker ----
    parser,             \* "none" | "open" | "errored" | "closed"
    parsedQ,            \* values enqueued on parser.readable, not yet read
    readerAlive,        \* the background reader loop of initParser is running
    inbox,              \* messages posted by the host, not yet dispatched
    outbox,             \* messages posted by the worker
    initPc,             \* position of the async 'init' handler
    endPc,              \* position of the async 'end' handler
    hostPc,             \* position of startConversion/streamFile in page.tsx
    sent,               \* chunks the host has posted
    badSent,            \* those among them whose object is malformed
    \* ---- history (not read by the program) ----
    stream,             \* flat rows handed to processObject so far, in order
    sampled,            \* indexes (into stream) of the rows given to buildSchema
    faults,             \* injected engine failures so far
    sqlErrors,          \* SQL statements that failed so far (any cause)
    chunksLost,         \* chunks dropped because parserWriter was null
    lastFlush,          \* what the last insertBatch call did
    queued,             \* names pushed to pendingColumns so far, in order
    \* ---- sw.js processChunk state (lines 206-214) ----
    buffer,
    bracketDepth,
    inString,
    escapeNext,
    \* ---- environment and history of the scanner ----
    scanObjs,           \* the top-level object texts of the input, in order
    scanRest,           \* input text not yet fed
    handed,             \* object texts parsed and handed to processObject
    skipped,            \* object texts on which JSON.parse threw
    endReport,          \* message types the 'end' handler has posted
    \* ---- flattenObject and detectType called on their own ----
    flatPc,             \* "idle" | "in" | "flat" | "typed"
    flatIn,             \* the object given to flattenObject
    flatOut,            \* the flat row it returned
    flatTypes,          \* detectType of each value of the row, in the row's order
    \* ---- the service worker of sw.js (lines 1-189) and its clients ----
    swActive,           \* installed, activated and controlling the clients
    cache,              \* the URLs stored in the cache CACHE_NAME
    online,             \* the network is reachable
    okOnline,           \* URLs the clients were answered while online
    offlineLog,         \* [url, from]: how requests were answered while offline
    \* ---- the SQL text the loader builds (db-worker.js 316-321, 394, 438-440) ----
    tableName,          \* the characters of the table's name
    sqlPc,              \* "idle" | "config" | "ready"
    sqlText             \* the statements built so far, each a sequence of pieces

workerVars == <<db, sampleSize, batchSize, schema, columns, objectCount,
                rowsProcessed, currentBatch, existingColumnsSet, pendingColumns,
                parserWriter, parser, parsedQ, readerAlive, inbox, outbox,
                initPc, endPc, hostPc, sent, badSent, stream, sampled, faults, sqlErrors,
                chunksLost, lastFlush, queued>>

scanVars == <<buffer, bracketDepth, inString, escapeNext, scanObjs, scanRest,
              handed, skipped, endReport>>

flatVars == <<flatPc, flatIn, flatOut, flatTypes>>

swVars == <<swActive, cache, online, okOnline, offlineLog>>

sqlVars == <<tableName, sqlPc, sqlText>>

vars == <<workerVars, scanVars, flatVars, swVars, sqlVars>>

(***************************************************************************)
(* Bounds                                                                  *)
(***************************************************************************)
MaxObjects == 3       \* objects the host streams in one run
MaxFaults == 1        \* injected engine failures in one run
MaxScanObjs == 2      \* top-level objects in the scanner's input text
MaxSample == 3        \* rows given to schemaBuilder.add in SpecInfer
MaxEntries == 2       \* top-level entries of an object given to flattenObject

(***************************************************************************)
(* Small helpers                                                           *)
(***************************************************************************)
Range(s) == {s[i] : i \in 1..Len(s)}

(***************************************************************************)
(* Boundary scanner: sw.js processChunk                                    *)
(*                                                                         *)
(* A text is a sequence of one-character strings.  "x" stands for any      *)
(* character the scanner does not look at (letters, digits, ':', ...).     *)
(***************************************************************************)
QUOTE == "\""
BSLASH == "\\"

\* JSON.parse(objectStr) at sw.js:325 succeeds on a well-formed object text.
\* Over the scanner's alphabet: the text opens with '{', every string is
\* closed, braces outside strings balance, and the depth returns to 0 at the
\* last character and nowhere before it.
RECURSIVE WellFormedFrom(_, _, _, _, _)
WellFormedFrom(t, i, depth, inStr, esc) ==
    IF i > Len(t) THEN FALSE
    ELSE LET c == t[i] IN
         IF inStr
         THEN IF esc THEN WellFormedFrom(t, i + 1, depth, TRUE, FALSE)
              ELSE IF c = BSLASH THEN WellFormedFrom(t, i + 1, depth, TRUE, TRUE)
              ELSE IF c = QUOTE THEN WellFormedFrom(t, i + 1, depth, FALSE, FALSE)
              ELSE WellFormedFrom(t, i + 1, depth, TRUE, FALSE)
         ELSE IF c = QUOTE THEN WellFormedFrom(t, i + 1, depth, TRUE, FALSE)
              ELSE IF c = "{" THEN WellFormedFrom(t, i + 1, depth + 1, FALSE, FALSE)
              ELSE IF c = "}"
                   THEN IF depth = 1 THEN i = Len(t)
                        ELSE WellFormedFrom(t, i + 1, depth - 1, FALSE, FALSE)
              ELSE IF c \in {"[", "]", BSLASH} THEN FALSE
              ELSE WellFormedFrom(t, i + 1, depth, FALSE, FALSE)

JSONParseOk(t) == Len(t) >= 2 /\ t[1] = "{" /\ WellFormedFrom(t, 1, 0, FALSE, FALSE)

\* The scanner's state while it walks the buffer: the carried flags, the
\* local startPos (0-based, as in the code) and what it found.
ScanState(depth, inStr, esc, startPos, found, bad) ==
    [bracketDepth |-> depth, inString |-> inStr, escapeNext |-> esc,
     startPos |-> startPos, handed |-> found, skipped |-> bad]

\* One iteration of the for loop at sw.js:295-342, for the 0-based index i.
ScanChar(buf, i, s) ==
    LET char == buf[i + 1]
        inStr1 == IF char = QUOTE /\ ~s.escapeNext THEN ~s.inString ELSE s.inString
    IN  IF char = BSLASH /\ ~s.escapeNext
        THEN [s EXCEPT !.inString = inStr1, !.escapeNext = TRUE]
        ELSE LET s1 == [s EXCEPT !.inString = inStr1, !.escapeNext = FALSE] IN
             IF inStr1 THEN s1
             ELSE IF char = "{"
                  THEN [s1 EXCEPT !.startPos = IF s.bracketDepth = 0 THEN i ELSE @,
                                  !.bracketDepth = @ + 1]
             ELSE IF char = "}"
                  THEN IF s.bracketDepth - 1 = 0
                       THEN LET objectStr == SubSeq(buf, s.startPos + 1, i + 1) IN
                            [s1 EXCEPT !.bracketDepth = 0,
                                       !.startPos = i + 1,
                                       !.handed = IF JSONParseOk(objectStr)
                                                  THEN Append(@, objectStr) ELSE @,
                                       !.skipped = IF JSONParseOk(objectStr)
                                                   THEN @ ELSE Append(@, objectStr)]
                       ELSE [s1 EXCEPT !.bracketDepth = @ - 1]
             ELSE s1

RECURSIVE ScanLoop(_, _, _)
ScanLoop(buf, i, s) ==
    IF i >= Len(buf) THEN s ELSE ScanLoop(buf, i + 1, ScanChar(buf, i, s))

\* processChunk(chunk): the result of the whole call, from the state st =
\* [buffer, bracketDepth, inString, escapeNext] carried between calls.
processChunk(st, chunk) ==
    LET buf == st.buffer \o chunk
        s == ScanLoop(buf, 0,
                      ScanState(st.bracketDepth, st.inString, st.escapeNext,
                                0, <<>>, <<>>))
    IN  [buffer |-> IF s.startPos > 0
                    THEN SubSeq(buf, s.startPos + 1, Len(buf)) ELSE buf,
         bracketDepth |-> s.bracketDepth,
         inString |-> s.inString,
         escapeNext |-> s.escapeNext,
         handed |-> s.handed,
         skipped |-> s.skipped]

\* Well-formed top-level objects over the scanner's alphabet:
\*   {x}   {x{x}}   {"}"}   {"\""}   {"\\"}
ScanObjectTexts ==
    { <<"{", "x", "}">>,
      <<"{", "x", "{", "x", "}", "}">>,
      <<"{", QUOTE, "}", QUOTE, "}">>,
      <<"{", QUOTE, BSLASH, QUOTE, QUOTE, "}">>,
      <<"{", QUOTE, BSLASH, BSLASH, QUOTE, "}">> }

\* The text of the array [obj, obj, ...]
RECURSIVE JoinObjs(_)
JoinObjs(objs) ==
    IF objs = <<>> THEN <<>>
    ELSE IF Len(objs) = 1 THEN objs[1]
    ELSE objs[1] \o <<",">> \o JoinObjs(Tail(objs))

ArrayText(objs) == <<"[">> \o JoinObjs(objs) \o <<"]">>

ScanInputs == UNION { [1..n -> ScanObjectTexts] : n \in 1..MaxScanObjs }

ScanInit ==
    /\ buffer = <<>>
    /\ bracketDepth = 0
    /\ inString = FALSE
    /\ escapeNext = FALSE
    /\ scanObjs \in ScanInputs
    /\ scanRest = ArrayText(scanObjs)
    /\ handed = <<>>
    /\ skipped = <<>>
    /\ endReport = <<>>

ScanIdle ==
    /\ buffer = <<>>
    /\ bracketDepth = 0
    /\ inString = FALSE
    /\ escapeNext = FALSE
    /\ scanObjs = <<>>
    /\ scanRest = <<>>
    /\ handed = <<>>
    /\ skipped = <<>>
    /\ endReport = <<>>

\* The 'chunk' message of the first worker (sw.js:264-270) once initialized:
\* the next n characters of the input arrive as one chunk.
FeedChunk ==
    /\ scanRest # <<>>
    /\ endReport = <<>>
    /\ \E n \in 1..Len(scanRest) :
         LET r == processChunk([buffer |-> buffer, bracketDepth |-> bracketDepth,
                                inString |-> inString, escapeNext |-> escapeNext],
                               SubSeq(scanRest, 1, n))
         IN  /\ buffer' = r.buffer
             /\ bracketDepth' = r.bracketDepth
             /\ inString' = r.inString
             /\ escapeNext' = r.escapeNext
             /\ handed' = handed \o r.handed
             /\ skipped' = skipped \o r.skipped
             /\ scanRest' = SubSeq(scanRest, n + 1, Len(scanRest))
    /\ UNCHANGED <<scanObjs, endReport, workerVars,
                   flatVars, swVars, sqlVars>>

\* The 'end' message of the first worker (sw.js:272-277) once initialized:
\* finalizeProcessing (sw.js:676-713) creates the table if need be, flushes
\* and posts 'complete'; it reads neither bracketDepth nor buffer. The file
\* ends where the host stopped reading: with text left over in scanRest the
\* file was a truncated copy of the document.
ScanEnd ==
    /\ endReport = <<>>
    /\ endReport' = Append(endReport, "complete")
    /\ UNCHANGED <<buffer, bracketDepth, inString, escapeNext, scanObjs, scanRest,
                   handed, skipped, workerVars,
                   flatVars, swVars, sqlVars>>

\* What one call on the whole text hands on.
WholeFeed(text) ==
    processChunk([buffer |-> <<>>, bracketDepth |-> 0, inString |-> FALSE,
                  escapeNext |-> FALSE], text)

(***************************************************************************)
(* JSON values.  Every value is a record [t, n, kids]:                     *)
(*   null              t = "null"                                          *)
(*   number x          t = "num",  n = 10 * x (so 15 is the number 1.5)    *)
(*   boolean           t = "bool", n = 1 for true, 0 for false             *)
(*   string            t = "str",  n >= 1 names the string                 *)
(*   JSON text of arr  t = "str",  n = 0, kids = <<arr>>                   *)
(*   array             t = "arr",  kids = the elements                     *)
(*   object            t = "obj",  kids = the entries [k, val] in order    *)
(* A key is a sequence of one-character strings.                           *)
(***************************************************************************)
NullV == [t |-> "null", n |-> 0, kids |-> <<>>]
Num(tenths) == [t |-> "num", n |-> tenths, kids |-> <<>>]
Bool(b) == [t |-> "bool", n |-> IF b THEN 1 ELSE 0, kids |-> <<>>]
Str(id) == [t |-> "str", n |-> id, kids |-> <<>>]
Arr(elems) == [t |-> "arr", n |-> 0, kids |-> elems]
Obj(entries) == [t |-> "obj", n |-> 0, kids |-> entries]
Entry(k, v) == [k |-> k, val |-> v]

\* JSON.stringify(value) of an array (db-worker.js:237): a string that is a
\* function of the array.
JSONStringify(value) == [t |-> "str", n |-> 0, kids |-> <<value>>]

\* Property access on a flat row (a sequence of entries with distinct keys).
Keys(row) == {row[i].k : i \in 1..Len(row)}
Has(row, k) == k \in Keys(row)
Get(row, k) == row[CHOOSE i \in 1..Len(row) : row[i].k = k].val

\* Property names every object literal inherits from Object.prototype (a
\* representative few): constructor, toString, valueOf and __proto__.
kConstructor == <<"c", "o", "n", "s", "t", "r", "u", "c", "t", "o", "r">>
kToString == <<"t", "o", "S", "t", "r", "i", "n", "g">>
kValueOf == <<"v", "a", "l", "u", "e", "O", "f">>
kProto == <<"_", "_", "p", "r", "o", "t", "o", "_", "_">>

ObjectPrototypeKeys == {kConstructor, kToString, kValueOf, kProto}

\* What reading an inherited property yields: a function of Object.prototype
\* (for __proto__, the prototype object itself).
Inherited == [t |-> "fn", n |-> 0, kids |-> <<>>]

Undefined == [t |-> "undef", n |-> 0, kids |-> <<>>]

\* row[k] as the code reads it, without an own-property test: an own
\* property, else what the prototype chain holds under that name.
PropertyGet(row, k) ==
    IF Has(row, k) THEN Get(row, k)
    ELSE IF k \in ObjectPrototypeKeys THEN Inherited
    ELSE Undefined

\* flattened[newKey] = value: an existing property keeps its place.  On an
\* object literal the name __proto__ is the setter of Object.prototype, which
\* creates no own property (and ignores a value that is not an object).
Put(row, k, v) ==
    IF k = kProto THEN row
    ELSE IF Has(row, k)
    THEN [i \in 1..Len(row) |-> IF row[i].k = k THEN Entry(k, v) ELSE row[i]]
    ELSE Append(row, Entry(k, v))

\* Object.assign(target, source)
RECURSIVE ObjectAssign(_, _)
ObjectAssign(target, source) ==
    IF source = <<>> THEN target
    ELSE ObjectAssign(Put(target, Head(source).k, Head(source).val), Tail(source))

\* flattenObject(obj, prefix): obj is the sequence of the object's entries.
RECURSIVE flattenObject(_, _)
RECURSIVE FlattenInto(_, _, _)
FlattenInto(flattened, entries, prefix) ==
    IF entries = <<>> THEN flattened
    ELSE LET key == Head(entries).k
             value == Head(entries).val
             newKey == IF prefix # <<>> THEN prefix \o <<"_">> \o key ELSE key
             next ==
                 IF value.t = "null" THEN Put(flattened, newKey, NullV)
                 ELSE IF value.t = "arr" THEN Put(flattened, newKey, JSONStringify(value))
                 ELSE IF value.t = "obj"
                      THEN ObjectAssign(flattened, flattenObject(value.kids, newKey))
                 ELSE Put(flattened, newKey, value)
         IN  FlattenInto(next, Tail(entries), prefix)

flattenObject(obj, prefix) == FlattenInto(<<>>, obj, prefix)

\* detectType(value)
\* A rule without REAL: every number is an INTEGER.
detectTypeWithoutReal(value) ==
    IF value.t \in {"num", "bool"} THEN "INTEGER" ELSE "TEXT"

detectType(value) ==
    IF value.t = "null" THEN "TEXT"
    ELSE IF value.t = "num" THEN (IF value.n % 10 = 0 THEN "INTEGER" ELSE "REAL")
    ELSE IF value.t = "bool" THEN "INTEGER"
    ELSE "TEXT"

Col(name, type) == [name |-> name, type |-> type]
Names(cols) == {cols[i].name : i \in 1..Len(cols)}
TypeOf(cols, name) == cols[CHOOSE i \in 1..Len(cols) : cols[i].name = name].type

\* The body of the loop of schemaBuilder.add for one key of the row.
\* A builder that keeps the type of the first sighting whatever comes later.
AddKeyKeepsFirstType(cols, key, value) ==
    IF key \notin Names(cols) THEN Append(cols, Col(key, detectType(value)))
    ELSE cols

\* this.columns[key] is read through the prototype chain as well: under an
\* inherited name it is truthy, the else branch writes a type property on the
\* inherited object, and this.columns gets no entry.
AddKey(cols, key, value) ==
    LET type == detectType(value) IN
    IF key \in ObjectPrototypeKeys THEN cols
    ELSE IF key \notin Names(cols) THEN Append(cols, Col(key, type))
    ELSE [i \in 1..Len(cols) |->
            IF cols[i].name = key /\ cols[i].type # type /\ value.t # "null"
            THEN Col(key, "TEXT") ELSE cols[i]]

\* schemaBuilder.add(obj), from the columns seen so far
RECURSIVE schemaBuilderAdd(_, _)
schemaBuilderAdd(cols, row) ==
    IF row = <<>> THEN cols
    ELSE schemaBuilderAdd(AddKey(cols, Head(row).k, Head(row).val), Tail(row))

\* sanitize(name): every character outside [a-zA-Z0-9_] becomes '_'
AllowedChars ==
    {"a","b","c","d","e","f","g","h","i","j","k","l","m","n","o","p","q","r",
     "s","t","u","v","w","x","y","z",
     "A","B","C","D","E","F","G","H","I","J","K","L","M","N","O","P","Q","R",
     "S","T","U","V","W","X","Y","Z",
     "0","1","2","3","4","5","6","7","8","9","_"}

sanitize(name) ==
    [i \in 1..Len(name) |-> IF name[i] \in AllowedChars THEN name[i] ELSE "_"]

(***************************************************************************)
(* The SQL engine (sql.js) as the worker uses it.  An engine state is      *)
(*   [exists, cols, rows, txn]: whether the table exists, its columns      *)
(*   (name as written in the SQL text, declared type), its rows and        *)
(*   whether a transaction is open.  A stored row is [src, vals]: vals is  *)
(*   aligned with cols; src is the number of the object the row was made   *)
(*   from (history only).                                                  *)
(* Every statement returns [ok, e].                                        *)
(***************************************************************************)
NewDatabase == [exists |-> FALSE, cols |-> <<>>, rows |-> <<>>, txn |-> FALSE]

NoDuplicates(s) == \A i, j \in 1..Len(s) : s[i] = s[j] => i = j

\* CREATE TABLE "t" ("c1" T1, ...): fails on a duplicate column name.
SqlCreateTable(e, defs) ==
    IF e.exists \/ defs = <<>> \/ ~NoDuplicates([i \in 1..Len(defs) |-> defs[i].name])
    THEN [ok |-> FALSE, e |-> e]
    ELSE [ok |-> TRUE, e |-> [e EXCEPT !.exists = TRUE, !.cols = defs, !.rows = <<>>]]

\* ALTER TABLE "t" ADD COLUMN "c" T: fails when the table is missing or has a
\* column of that name; the rows already stored read NULL in the new column.
SqlAddColumn(e, def) ==
    IF ~e.exists \/ def.name \in Names(e.cols)
    THEN [ok |-> FALSE, e |-> e]
    ELSE [ok |-> TRUE,
          e |-> [e EXCEPT !.cols = Append(@, def),
                          !.rows = [i \in 1..Len(@) |->
                                      [@[i] EXCEPT !.vals = Append(@, NullV)]]]]

\* db.prepare('INSERT INTO "t" (names) VALUES (?, ...)'): fails when the table
\* is missing, the column list is empty or names a column the table lacks.
SqlPrepareInsertOk(e, names) ==
    /\ e.exists
    /\ names # <<>>
    /\ \A i \in 1..Len(names) : names[i] \in Names(e.cols)

\* stmt.run(values): one row; a column named twice takes its first value, a
\* column not named is NULL.
SqlInsertRow(e, names, values, src) ==
    LET val(c) == IF c \in Range(names)
                  THEN values[CHOOSE i \in 1..Len(names) :
                                /\ names[i] = c
                                /\ \A j \in 1..(i - 1) : names[j] # c]
                  ELSE NullV
    IN  [e EXCEPT !.rows = Append(@, [src |-> src,
                                      vals |-> [i \in 1..Len(e.cols) |->
                                                   val(e.cols[i].name)]])]

\* stmt.run(values) binds null, numbers and strings; any other value throws.
SqlBindOk(values) == \A i \in 1..Len(values) : values[i].t \in {"null", "num", "str"}

\* db.export().byteLength: grows with what is stored.
ExportSize(e) == IF e.exists THEN 1 + Len(e.cols) + Len(e.cols) * Len(e.rows) ELSE 0

(***************************************************************************)
(* The loader of db-worker.js.  Its functions are operators on a record w  *)
(* of the module state they read and write (fields named as the            *)
(* variables), plus                                                        *)
(*   plan   the engine failure injected into this call, if any             *)
(*   threw  an exception left the function                                 *)
(***************************************************************************)
Msg(type, what, name, n, size) ==
    [type |-> type, what |-> what, name |-> name, n |-> n, size |-> size]

ErrorMsg(what) == Msg("error", what, <<>>, 0, 0)

Post(w, m) == [w EXCEPT !.outbox = Append(@, m)]

NoPlan == [kind |-> "none", at |-> 0]

\* The statement (kind, at) of this call is the one the injected failure hits.
Hit(w, kind, at) == w.plan.kind = kind /\ w.plan.at = at

\* Book-keeping of a failed statement: injected or not.
Failed(w, injected) ==
    [w EXCEPT !.sqlErrors = @ + 1,
              !.faults = IF injected THEN @ + 1 ELSE @,
              !.plan = IF injected THEN NoPlan ELSE @]

\* db.run('BEGIN'): fails inside a transaction.
SqlBegin(e) ==
    IF e.txn THEN [ok |-> FALSE, e |-> e]
    ELSE [ok |-> TRUE, e |-> [e EXCEPT !.txn = TRUE]]

\* db.run('COMMIT')
SqlCommit(e) == [e EXCEPT !.txn = FALSE]

\* db.run('BEGIN') ... db.run('ROLLBACK'): the engine returns to the state it
\* had at BEGIN (SQLite rolls back DDL as well as DML), with no transaction
\* open.
\* A handler whose ROLLBACK is missing: the statements that ran stay.
RollbackKeepsWrites(e, atBegin) == e

Rollback(e, atBegin) == [atBegin EXCEPT !.txn = FALSE]

\* The transaction statements a flush has run so far, in order.
Issued(w, stmt) == [w EXCEPT !.txn = Append(@, stmt)]

SchemaCols(w) == w.schema[1]

SqlNames(cols) == [i \in 1..Len(cols) |-> sanitize(cols[i].name)]

\* createTable()
\* A createTable that publishes the column list whether or not the CREATE
\* TABLE succeeded.
createTablePostsAnyway(w) ==
    LET cols == w.columns
        w1 == [w EXCEPT !.schema = <<cols>>]
    IN  IF Len(cols) = 0 THEN Post(w1, ErrorMsg("empty-schema"))
        ELSE LET defs == [i \in 1..Len(cols) |->
                            Col(sanitize(cols[i].name), cols[i].type)]
                 injected == Hit(w, "create", 1)
                 r == SqlCreateTable(w.db[1], defs)
             IN  IF injected \/ ~r.ok
                 THEN Post(Post(Failed(w1, injected), Msg("schema", "", <<>>, Len(cols), 0)),
                           ErrorMsg("create-table"))
                 ELSE Post([w1 EXCEPT !.db = <<r.e>>,
                                      !.existingColumnsSet = Names(cols)],
                           Msg("schema", "", <<>>, Len(cols), 0))

createTable(w) ==
    LET cols == w.columns
        w1 == [w EXCEPT !.schema = <<cols>>]
    IN  IF Len(cols) = 0 THEN Post(w1, ErrorMsg("empty-schema"))
        ELSE LET defs == [i \in 1..Len(cols) |->
                            Col(sanitize(cols[i].name), cols[i].type)]
                 injected == Hit(w, "create", 1)
                 r == SqlCreateTable(w.db[1], defs)
             IN  IF injected \/ ~r.ok
                 THEN Post(Failed(w1, injected), ErrorMsg("create-table"))
                 ELSE Post([w1 EXCEPT !.db = <<r.e>>,
                                      !.existingColumnsSet = Names(cols)],
                           Msg("schema", "", <<>>, Len(cols), 0))

\* A loop that queues an unknown key without adding it to the set.
RECURSIVE CheckKeysWithoutMark(_, _)
CheckKeysWithoutMark(w, row) ==
    IF row = <<>> THEN w
    ELSE LET key == Head(row).k IN
         IF key \notin w.existingColumnsSet
         THEN CheckKeysWithoutMark(
                  [w EXCEPT !.pendingColumns =
                                Append(@, Col(key, detectType(Head(row).val))),
                            !.queued = Append(@, key)],
                  Tail(row))
         ELSE CheckKeysWithoutMark(w, Tail(row))

\* A loop that goes on resolving type conflicts for a queued column, as
\* schemaBuilder.add does during sampling.
RECURSIVE CheckKeysRetypesPending(_, _)
CheckKeysRetypesPending(w, row) ==
    IF row = <<>> THEN w
    ELSE LET key == Head(row).k
             type == detectType(Head(row).val)
         IN  IF key \notin w.existingColumnsSet
             THEN CheckKeysRetypesPending(
                      [w EXCEPT !.pendingColumns = Append(@, Col(key, type)),
                                !.existingColumnsSet = @ \cup {key},
                                !.queued = Append(@, key)],
                      Tail(row))
             ELSE CheckKeysRetypesPending(
                      [w EXCEPT !.pendingColumns =
                           [i \in 1..Len(@) |->
                               IF @[i].name = key /\ @[i].type # type
                               THEN Col(key, "TEXT") ELSE @[i]]],
                      Tail(row))

\* checkAndAddNewColumns(obj)
RECURSIVE CheckKeys(_, _)
CheckKeys(w, row) ==
    IF row = <<>> THEN w
    ELSE LET key == Head(row).k IN
         IF key \notin w.existingColumnsSet
         THEN CheckKeys([w EXCEPT !.pendingColumns =
                                      Append(@, Col(key, detectType(Head(row).val))),
                                  !.existingColumnsSet = @ \cup {key},
                                  !.queued = Append(@, key)],
                        Tail(row))
         ELSE CheckKeys(w, Tail(row))

checkAndAddNewColumns(w, row) ==
    IF w.schema = <<>> \/ w.db = <<>> THEN w ELSE CheckKeys(w, row)

\* applyPendingColumns(): the loop over pendingColumns from its i-th element,
\* inside the transaction begun in the engine state atBegin.
RECURSIVE AlterLoop(_, _, _)
AlterLoop(w, i, atBegin) ==
    IF i > Len(w.pendingColumns)
    THEN [Issued(w, "COMMIT") EXCEPT !.db = <<SqlCommit(@[1])>>,
                                   !.pendingColumns = <<>>]
    ELSE LET col == w.pendingColumns[i]
             injected == Hit(w, "alter", i)
             r == SqlAddColumn(w.db[1], Col(sanitize(col.name), col.type))
         IN  IF injected \/ ~r.ok
             THEN Post([Failed(Issued(w, "ROLLBACK"), injected) EXCEPT
                            !.db = <<Rollback(w.db[1], atBegin)>>],
                       ErrorMsg("add-columns"))
             ELSE AlterLoop(Post([w EXCEPT !.db = <<r.e>>,
                                           !.schema = <<Append(@[1], col)>>],
                                 Msg("newcol", col.type, col.name, 0, 0)),
                            i + 1, atBegin)

applyPendingColumns(w) ==
    IF Len(w.pendingColumns) = 0 THEN w
    ELSE LET b == SqlBegin(w.db[1]) IN
         IF ~b.ok
         THEN Post([Failed(Issued(w, "ROLLBACK"), FALSE) EXCEPT
                        !.db = <<Rollback(w.db[1], w.db[1])>>],
                   ErrorMsg("add-columns"))
         ELSE AlterLoop([Issued(w, "BEGIN") EXCEPT !.db = <<b.e>>], 1, w.db[1])

\* The value insertBatch binds for one column of one row (lines 445-455).
BindValue(row, col) ==
    LET value == PropertyGet(row, col.name) IN
    IF value.t \in {"undef", "null"} THEN NullV
    ELSE IF value.t = "bool" THEN Num(10 * value.n)
    ELSE value

BindValues(row, cols) == [i \in 1..Len(cols) |-> BindValue(row, cols[i])]

TableSrcs(e) == [i \in 1..Len(e.rows) |-> e.rows[i].src]
BatchSrcs(batch) == [i \in 1..Len(batch) |-> batch[i].src]

\* History of one flush (applyPendingColumns, then insertBatch): how the
\* insert ended ("ok", "failed", or "norows" when the batch was empty), the
\* rows it was given, the row on which it failed (0: the prepare), what was
\* handed to stmt.run for each row ([src, cols, vals]: the object's number,
\* the Schema's names and the values array), the BEGIN, COMMIT and ROLLBACK
\* statements it ran (txn), and the
\* table's rows, the row count, the table's columns and the pending columns
\* when the flush started.
FlushRecord(outcome, w, atBegin, failedAt) ==
    [outcome |-> outcome, srcs |-> BatchSrcs(w.currentBatch),
     before |-> TableSrcs(atBegin), count |-> w.rowsProcessed,
     failedAt |-> failedAt, bound |-> w.bound, txn |-> w.txn,
     colsBefore |-> w.flushStart.cols, pendingBefore |-> w.flushStart.pending]

NoFlush ==
    [outcome |-> "none", srcs |-> <<>>, before |-> <<>>, count |-> 0,
     failedAt |-> 0, bound |-> <<>>, txn |-> <<>>, colsBefore |-> <<>>,
     pendingBefore |-> <<>>]

\* A catch block that reports the failure without rolling back.
InsertFailedWithoutRollback(w, injected, atBegin, failedAt) ==
    Post([Failed(w, injected) EXCEPT
              !.lastFlush = FlushRecord("failed", w, atBegin, failedAt)],
         ErrorMsg("insert-batch"))

\* The catch block of insertBatch (lines 481-488).
InsertFailed(w, injected, atBegin, failedAt) ==
    LET wr == Issued(w, "ROLLBACK") IN
    Post([Failed(wr, injected) EXCEPT
              !.db = <<Rollback(w.db[1], atBegin)>>,
              !.lastFlush = FlushRecord("failed", wr, atBegin, failedAt)],
         ErrorMsg("insert-batch"))

\* A loop that reports the size of the batch instead of the running total.
RECURSIVE InsertLoopReportsBatch(_, _, _)
InsertLoopReportsBatch(w, i, atBegin) ==
    IF i > Len(w.currentBatch)
    THEN LET wc == [Issued(w, "COMMIT") EXCEPT !.db = <<SqlCommit(@[1])>>] IN
         Post([wc EXCEPT !.rowsProcessed = @ + Len(w.currentBatch),
                         !.currentBatch = <<>>,
                         !.lastFlush = FlushRecord("ok", wc, atBegin, 0)],
              Msg("progress", "", <<>>, Len(w.currentBatch), 0))
    ELSE LET values == BindValues(w.currentBatch[i].row, SchemaCols(w)) IN
         IF Hit(w, "insert", i) \/ ~SqlBindOk(values)
         THEN InsertFailed(w, Hit(w, "insert", i), atBegin, i)
         ELSE InsertLoopReportsBatch(
                  [w EXCEPT !.db = <<SqlInsertRow(@[1], SqlNames(SchemaCols(w)), values,
                                                  w.currentBatch[i].src)>>],
                  i + 1, atBegin)

\* insertBatch(): the loop over currentBatch from its i-th row.
RECURSIVE InsertLoop(_, _, _)
InsertLoop(w, i, atBegin) ==
    IF i > Len(w.currentBatch)
    THEN LET total == w.rowsProcessed + Len(w.currentBatch)
             wc == [Issued(w, "COMMIT") EXCEPT !.db = <<SqlCommit(@[1])>>]
         IN  Post([wc EXCEPT !.rowsProcessed = total,
                             !.currentBatch = <<>>,
                             !.lastFlush = FlushRecord("ok", wc, atBegin, 0)],
                  Msg("progress", "", <<>>, total, 0))
    ELSE LET values == BindValues(w.currentBatch[i].row, SchemaCols(w))
             wb == [w EXCEPT !.bound =
                        Append(@, [src |-> w.currentBatch[i].src,
                                   cols |-> [j \in 1..Len(SchemaCols(w)) |->
                                               SchemaCols(w)[j].name],
                                   vals |-> values])]
         IN  IF Hit(w, "insert", i) \/ ~SqlBindOk(values)
             THEN InsertFailed(wb, Hit(w, "insert", i), atBegin, i)
             ELSE InsertLoop([wb EXCEPT !.db = <<SqlInsertRow(
                                            @[1], SqlNames(SchemaCols(w)), values,
                                            w.currentBatch[i].src)>>],
                             i + 1, atBegin)

insertBatch(w) ==
    IF Len(w.currentBatch) = 0 THEN w
    ELSE LET injected == Hit(w, "insert", 0)
             b == SqlBegin(w.db[1])
             wb == [Issued(w, "BEGIN") EXCEPT !.db = <<b.e>>]
         IN  IF ~b.ok THEN InsertFailed(w, FALSE, w.db[1], 0)
             ELSE IF injected \/ ~SqlPrepareInsertOk(w.db[1], SqlNames(SchemaCols(w)))
             THEN InsertFailed(wb, injected, w.db[1], 0)
             ELSE InsertLoop(wb, 1, w.db[1])

\* applyPendingColumns(); insertBatch(); as processObject (lines 213-214) and
\* finalizeProcessing (lines 505-510) call them.
Flush(w) ==
    LET w0 == [w EXCEPT !.flushStart = [cols |-> SqlNames(w.db[1].cols),
                                        pending |-> SqlNames(w.pendingColumns)],
                        !.bound = <<>>, !.txn = <<>>]
        w1 == applyPendingColumns(w0)
    IN  IF Len(w1.currentBatch) = 0
        THEN [w1 EXCEPT !.lastFlush = FlushRecord("norows", w1, w0.db[1], 0)]
        ELSE insertBatch(w1)

\* processObject(obj)
\* A buffer that takes each new row at its front.
processObjectPushesFront(w, obj) ==
    LET count == w.objectCount + 1
        flatObj == flattenObject(obj.kids, <<>>)
        w0 == [w EXCEPT !.objectCount = count, !.stream = Append(@, flatObj)]
        w1 == IF w0.schema = <<>> /\ count < w0.sampleSize
              THEN [w0 EXCEPT !.columns = schemaBuilderAdd(@, flatObj),
                              !.sampled = @ \cup {count}]
              ELSE w0
        w2 == IF w1.schema = <<>> /\ count >= w1.sampleSize
              THEN createTable(w1) ELSE w1
    IN  IF w2.schema # <<>>
        THEN LET w3 == checkAndAddNewColumns(w2, flatObj)
                 w4 == [w3 EXCEPT !.currentBatch =
                                      <<[src |-> count, row |-> flatObj]>> \o @]
             IN  IF Len(w4.currentBatch) >= w4.batchSize
                 THEN Flush(w4)
                 ELSE w4
        ELSE w2

processObject(w, obj) ==
    LET count == w.objectCount + 1
        flatObj == flattenObject(obj.kids, <<>>)
        w0 == [w EXCEPT !.objectCount = count, !.stream = Append(@, flatObj)]
        w1 == IF w0.schema = <<>> /\ count < w0.sampleSize
              THEN [w0 EXCEPT !.columns = schemaBuilderAdd(@, flatObj),
                              !.sampled = @ \cup {count}]
              ELSE w0
        w2 == IF w1.schema = <<>> /\ count >= w1.sampleSize
              THEN createTable(w1) ELSE w1
    IN  IF w2.schema # <<>>
        THEN LET w3 == checkAndAddNewColumns(w2, flatObj)
                 w4 == [w3 EXCEPT !.currentBatch =
                                      Append(@, [src |-> count, row |-> flatObj])]
             IN  IF Len(w4.currentBatch) >= w4.batchSize
                 THEN Flush(w4)
                 ELSE w4
        ELSE w2

\* finalizeProcessing(): db.export() is outside any try block.
\* A finalizer without the branch that creates the table of a short stream.
finalizeWithoutCreate(w) ==
    LET w3 == Flush(w)
    IN  IF w3.plan.kind = "export" /\ w3.plan.at >= 1
        THEN [w3 EXCEPT !.threw = TRUE,
                        !.faults = @ + 1,
                        !.plan = IF w3.plan.at = 1 THEN NoPlan
                                 ELSE [kind |-> "export", at |-> w3.plan.at - 1]]
        ELSE Post(w3, Msg("complete", "", <<>>, w3.rowsProcessed,
                          ExportSize(w3.db[1])))

finalizeProcessing(w) ==
    LET w1 == IF w.schema = <<>> /\ w.objectCount > 0 THEN createTable(w) ELSE w
        w3 == Flush(w1)
    IN  IF w3.plan.kind = "export" /\ w3.plan.at >= 1
        THEN [w3 EXCEPT !.threw = TRUE,
                        !.faults = @ + 1,
                        !.plan = IF w3.plan.at = 1 THEN NoPlan
                                 ELSE [kind |-> "export", at |-> w3.plan.at - 1]]
        ELSE Post(w3, Msg("complete", "", <<>>, w3.rowsProcessed,
                          ExportSize(w3.db[1])))

\* exportDatabase()
\* A handler that reports the failure and posts an (empty) result all the same.
exportDatabaseAlwaysPosts(w) ==
    IF w.db = <<>> \/ Hit(w, "export", 1)
    THEN Post(Post([w EXCEPT !.faults = IF w.db = <<>> THEN @ ELSE @ + 1,
                             !.plan = NoPlan],
                   ErrorMsg("export")),
              Msg("exported", "", <<>>, 0, 0))
    ELSE Post(w, Msg("exported", "", <<>>, 0, ExportSize(w.db[1])))

exportDatabase(w) ==
    IF w.db = <<>> \/ Hit(w, "export", 1)
    THEN Post([w EXCEPT !.faults = IF w.db = <<>> THEN @ ELSE @ + 1,
                        !.plan = NoPlan],
              ErrorMsg("export"))
    ELSE Post(w, Msg("exported", "", <<>>, 0, ExportSize(w.db[1])))

(***************************************************************************)
(* Inputs                                                                  *)
(***************************************************************************)
kA == <<"a">>
kB == <<"b">>
kADotB == <<"a", ".", "b">>

\* The top-level objects a stream is made of:
\*   {"a":1}  {"a":"x"}  {"a":{"b":true}}  {"a":null,"a.b":2}  {}
\* "a.b" and the flattened "a_b" are different keys with one sanitized name.
Objects ==
    { Obj(<<Entry(kA, Num(10))>>),
      Obj(<<Entry(kA, Str(1))>>),
      Obj(<<Entry(kA, Obj(<<Entry(kB, Bool(TRUE))>>))>>),
      Obj(<<Entry(kA, NullV), Entry(kADotB, Num(20))>>),
      Obj(<<>>) }

SampleSizes == {1, 2, 3}
BatchSizes == {1, 2}

\* The engine failures a call can meet: the CREATE TABLE, the i-th ALTER
\* TABLE, the prepare (0) or the i-th stmt.run of the INSERT, db.export()
\* (at = 2: both calls, when finalizeProcessing runs twice).
FaultPlans ==
    {NoPlan, [kind |-> "create", at |-> 1]}
    \cup {[kind |-> "alter", at |-> i] : i \in {1, 2}}
    \cup {[kind |-> "insert", at |-> i] : i \in {0, 1, 2}}
    \cup {[kind |-> "export", at |-> i] : i \in {1, 2}}

DefaultSampleSize == 100
DefaultBatchSize == 1000

HostMsg(type, ss, bs, obj) ==
    [type |-> type, sampleSize |-> ss, batchSize |-> bs, obj |-> obj]

(***************************************************************************)
(* The worker's state as a record, and back                                *)
(***************************************************************************)
W(plan) ==
    [db |-> db, sampleSize |-> sampleSize, batchSize |-> batchSize,
     schema |-> schema, columns |-> columns, objectCount |-> objectCount,
     rowsProcessed |-> rowsProcessed, currentBatch |-> currentBatch,
     existingColumnsSet |-> existingColumnsSet,
     pendingColumns |-> pendingColumns, outbox |-> outbox, stream |-> stream,
     sampled |-> sampled, faults |-> faults, sqlErrors |-> sqlErrors,
     lastFlush |-> lastFlush, queued |-> queued, plan |-> plan, threw |-> FALSE,
     flushStart |-> [cols |-> <<>>, pending |-> <<>>], bound |-> <<>>,
     txn |-> <<>>]

\* The call ran with its injected failure (if any) met, within the budget.
Ran(w) == w.plan = NoPlan /\ w.faults <= MaxFaults

Store(w) ==
    /\ db' = w.db
    /\ schema' = w.schema
    /\ columns' = w.columns
    /\ objectCount' = w.objectCount
    /\ rowsProcessed' = w.rowsProcessed
    /\ currentBatch' = w.currentBatch
    /\ existingColumnsSet' = w.existingColumnsSet
    /\ pendingColumns' = w.pendingColumns
    /\ outbox' = w.outbox
    /\ stream' = w.stream
    /\ sampled' = w.sampled
    /\ faults' = w.faults
    /\ sqlErrors' = w.sqlErrors
    /\ lastFlush' = w.lastFlush
    /\ queued' = w.queued

loaderVars == <<db, schema, columns, objectCount, rowsProcessed, currentBatch,
                existingColumnsSet, pendingColumns, stream, sampled, faults,
                sqlErrors, lastFlush, queued>>

WorkerInit ==
    /\ db = <<>>
    /\ sampleSize = DefaultSampleSize
    /\ batchSize = DefaultBatchSize
    /\ schema = <<>>
    /\ columns = <<>>
    /\ objectCount = 0
    /\ rowsProcessed = 0
    /\ currentBatch = <<>>
    /\ existingColumnsSet = {}
    /\ pendingColumns = <<>>
    /\ parserWriter = FALSE
    /\ parser = "none"
    /\ parsedQ = <<>>
    /\ readerAlive = FALSE
    /\ inbox = <<>>
    /\ outbox = <<>>
    /\ initPc = "none"
    /\ endPc = "none"
    /\ hostPc = "idle"
    /\ sent = 0
    /\ badSent = 0
    /\ stream = <<>>
    /\ sampled = {}
    /\ faults = 0
    /\ sqlErrors = 0
    /\ chunksLost = 0
    /\ lastFlush = NoFlush
    /\ queued = <<>>

(***************************************************************************)
(* The host: startConversion, streamFile and downloadDatabase of page.tsx  *)
(***************************************************************************)
\* startConversion posts 'init' and goes on to stream without waiting.
HostInit ==
    /\ hostPc = "idle"
    /\ \E ss \in SampleSizes, bs \in BatchSizes :
         inbox' = Append(inbox, HostMsg("init", ss, bs, Obj(<<>>)))
    /\ hostPc' = "streaming"
    /\ UNCHANGED <<loaderVars, sampleSize, batchSize, parserWriter, parser, parsedQ,
                   readerAlive, outbox, initPc, endPc, sent, badSent, chunksLost, scanVars,
                   flatVars, swVars, sqlVars>>

\* One turn of the loop of streamFile: the chunk completes one object.
HostChunk ==
    /\ hostPc = "streaming"
    /\ sent < MaxObjects
    /\ \E obj \in Objects :
         inbox' = Append(inbox, HostMsg("chunk", 0, 0, obj))
    /\ sent' = sent + 1
    /\ UNCHANGED badSent
    /\ UNCHANGED <<loaderVars, sampleSize, batchSize, parserWriter, parser, parsedQ,
                   readerAlive, outbox, initPc, endPc, hostPc, chunksLost, scanVars,
                   flatVars, swVars, sqlVars>>

\* A turn of the loop whose chunk holds an object that is not valid JSON,
\* such as {"a":}.
Malformed == [t |-> "bad", n |-> 0, kids |-> <<>>]

HostChunkMalformed ==
    /\ hostPc = "streaming"
    /\ sent < MaxObjects
    /\ inbox' = Append(inbox, HostMsg("chunk", 0, 0, Malformed))
    /\ sent' = sent + 1
    /\ badSent' = badSent + 1
    /\ UNCHANGED <<loaderVars, sampleSize, batchSize, parserWriter, parser, parsedQ,
                   readerAlive, outbox, initPc, endPc, hostPc, chunksLost, scanVars,
                   flatVars, swVars, sqlVars>>

HostEnd ==
    /\ hostPc = "streaming"
    /\ inbox' = Append(inbox, HostMsg("end", 0, 0, Obj(<<>>)))
    /\ hostPc' = "ended"
    /\ UNCHANGED <<loaderVars, sampleSize, batchSize, parserWriter, parser, parsedQ,
                   readerAlive, outbox, initPc, endPc, sent, badSent, chunksLost, scanVars,
                   flatVars, swVars, sqlVars>>

\* downloadDatabase: offered once 'complete' has been received.
HostExport ==
    /\ hostPc = "ended"
    /\ \E i \in 1..Len(outbox) : outbox[i].type = "complete"
    /\ inbox' = Append(inbox, HostMsg("export", 0, 0, Obj(<<>>)))
    /\ hostPc' = "exporting"
    /\ UNCHANGED <<loaderVars, sampleSize, batchSize, parserWriter, parser, parsedQ,
                   readerAlive, outbox, initPc, endPc, sent, badSent, chunksLost, scanVars,
                   flatVars, swVars, sqlVars>>

(***************************************************************************)
(* The worker: self.onmessage, initDatabase, initParser                    *)
(*                                                                         *)
(* A message is dispatched as a task; the reads of the background reader   *)
(* loop resolve as microtasks, so every value already enqueued on          *)
(* parser.readable is processed before the next task starts.               *)
(***************************************************************************)
NextTask(type) ==
    /\ inbox # <<>>
    /\ Head(inbox).type = type
    /\ parsedQ = <<>>

OrDefault(v, d) == IF v = 0 THEN d ELSE v

\* case 'init', up to the await of initSqlJs
OnInit ==
    /\ NextTask("init")
    /\ inbox' = Tail(inbox)
    /\ sampleSize' = OrDefault(Head(inbox).sampleSize, DefaultSampleSize)
    /\ batchSize' = OrDefault(Head(inbox).batchSize, DefaultBatchSize)
    /\ initPc' = "sql"
    /\ UNCHANGED <<loaderVars, parserWriter, parser, parsedQ, readerAlive, outbox,
                   endPc, hostPc, sent, badSent, chunksLost, scanVars,
                   flatVars, swVars, sqlVars>>

\* initDatabase after initSqlJs settles, up to the await of import() in
\* initParser.
InitSqlDone ==
    /\ initPc = "sql"
    /\ parsedQ = <<>>
    /\ \/ /\ db' = <<NewDatabase>>
          /\ initPc' = "import"
          /\ UNCHANGED outbox
       \/ /\ outbox' = Append(outbox, ErrorMsg("init-database"))
          /\ initPc' = "failed"
          /\ UNCHANGED db
    /\ UNCHANGED <<sampleSize, batchSize, schema, columns, objectCount,
                   rowsProcessed, currentBatch, existingColumnsSet, pendingColumns,
                   parserWriter, parser, parsedQ, readerAlive, inbox, endPc, hostPc,
                   sent, badSent, stream, sampled, faults, sqlErrors, chunksLost, lastFlush,
                   queued, scanVars,
                   flatVars, swVars, sqlVars>>

\* initParser after import() settles, and the rest of initDatabase: READY is
\* posted whether or not the parser could be loaded.
ImportDone ==
    /\ initPc = "import"
    /\ parsedQ = <<>>
    /\ \/ /\ parser' = "open"
          /\ parserWriter' = TRUE
          /\ readerAlive' = TRUE
          /\ outbox' = Append(outbox, Msg("READY", "", <<>>, 0, 0))
       \/ /\ outbox' = outbox \o <<ErrorMsg("init-parser"), Msg("READY", "", <<>>, 0, 0)>>
          /\ UNCHANGED <<parser, parserWriter, readerAlive>>
    /\ initPc' = "ready"
    /\ UNCHANGED <<loaderVars, sampleSize, batchSize, parsedQ, inbox, endPc, hostPc,
                   sent, badSent, chunksLost, scanVars,
                   flatVars, swVars, sqlVars>>

\* A handler that keeps the object of a premature chunk in the row buffer
\* instead of dropping it.
OnChunkKeepsEarlyChunk ==
    /\ NextTask("chunk")
    /\ inbox' = Tail(inbox)
    /\ IF ~parserWriter
       THEN /\ chunksLost' = chunksLost + 1
            /\ currentBatch' = Append(currentBatch,
                                      [src |-> 0,
                                       row |-> flattenObject(Head(inbox).obj.kids, <<>>)])
            /\ UNCHANGED <<parser, parsedQ, readerAlive, outbox>>
       ELSE IF parser = "open" /\ chunksLost = 0 /\ Head(inbox).obj # Malformed
       THEN /\ parsedQ' = Append(parsedQ, Head(inbox).obj)
            /\ UNCHANGED <<parser, readerAlive, outbox, chunksLost, currentBatch>>
       ELSE IF parser = "open"
       THEN /\ parser' = "errored"
            /\ readerAlive' = FALSE
            /\ outbox' = outbox \o <<ErrorMsg("json-parse"), ErrorMsg("parser-write")>>
            /\ UNCHANGED <<parsedQ, chunksLost, currentBatch>>
       ELSE /\ outbox' = Append(outbox, ErrorMsg("parser-write"))
            /\ UNCHANGED <<parser, parsedQ, readerAlive, chunksLost, currentBatch>>
    /\ UNCHANGED <<db, schema, columns, objectCount, rowsProcessed,
                   existingColumnsSet, pendingColumns, stream, sampled, faults,
                   sqlErrors, lastFlush, queued, sampleSize, batchSize,
                   parserWriter, initPc, endPc, hostPc, sent, badSent, scanVars,
                   flatVars, swVars, sqlVars>>

\* case 'chunk'
OnChunk ==
    /\ NextTask("chunk")
    /\ inbox' = Tail(inbox)
    /\ IF ~parserWriter
       THEN \* console.warn; the chunk is gone
            /\ chunksLost' = chunksLost + 1
            /\ UNCHANGED <<parser, parsedQ, readerAlive, outbox>>
       ELSE IF parser = "open" /\ chunksLost = 0 /\ Head(inbox).obj # Malformed
       THEN \* the parser emits the object the chunk completes
            /\ parsedQ' = Append(parsedQ, Head(inbox).obj)
            /\ UNCHANGED <<parser, readerAlive, outbox, chunksLost>>
       ELSE IF parser = "open"
       THEN \* the text is malformed, or starts in the middle of the document:
            \* the parser fails, write() rejects and so does the pending read()
            /\ parser' = "errored"
            /\ readerAlive' = FALSE
            /\ outbox' = outbox \o <<ErrorMsg("json-parse"), ErrorMsg("parser-write")>>
            /\ UNCHANGED <<parsedQ, chunksLost>>
       ELSE \* write() on an errored stream rejects
            /\ outbox' = Append(outbox, ErrorMsg("parser-write"))
            /\ UNCHANGED <<parser, parsedQ, readerAlive, chunksLost>>
    /\ UNCHANGED <<loaderVars, sampleSize, batchSize, parserWriter, initPc, endPc,
                   hostPc, sent, badSent, scanVars,
                   flatVars, swVars, sqlVars>>

\* The background reader loop of initParser: one read() and processObject.
ReaderLoop ==
    /\ readerAlive
    /\ parsedQ # <<>>
    /\ parsedQ' = Tail(parsedQ)
    /\ \E plan \in FaultPlans :
         LET w == processObject(W(plan), Head(parsedQ)) IN
         Ran(w) /\ Store(w)
    /\ UNCHANGED <<sampleSize, batchSize, parserWriter, parser, readerAlive, inbox,
                   initPc, endPc, hostPc, sent, badSent, chunksLost, scanVars,
                   flatVars, swVars, sqlVars>>

\* case 'end': with no parserWriter the message is ignored; close() on an
\* errored stream rejects and the catch block finalizes at once; otherwise
\* the handler closes the parser and sleeps 100 ms.
OnEnd ==
    /\ NextTask("end")
    /\ inbox' = Tail(inbox)
    /\ IF ~parserWriter
       THEN /\ endPc' = "ignored"
            /\ UNCHANGED <<loaderVars, outbox, parser, readerAlive>>
       ELSE IF parser = "open"
       THEN /\ parser' = "closed"
            /\ readerAlive' = FALSE
            /\ endPc' = "waiting"
            /\ UNCHANGED <<loaderVars, outbox>>
       ELSE /\ \E plan \in FaultPlans :
                 LET w == finalizeProcessing(W(plan)) IN
                 /\ Ran(w) /\ Store(w)
                 /\ endPc' = IF w.threw THEN "threw" ELSE "done"
            /\ UNCHANGED <<parser, readerAlive>>
    /\ UNCHANGED <<sampleSize, batchSize, parserWriter, parsedQ, initPc, hostPc, sent, badSent,
                   chunksLost, scanVars,
                   flatVars, swVars, sqlVars>>

\* The end handler after its 100 ms sleep: finalizeProcessing(), and once
\* more from the catch block if that threw (lines 157-166).
EndHandlerFinalize(w) ==
    LET w1 == finalizeProcessing(w) IN
    IF w1.threw THEN finalizeProcessing([w1 EXCEPT !.threw = FALSE]) ELSE w1

EndTimer ==
    /\ endPc = "waiting"
    /\ parsedQ = <<>>
    /\ \E plan \in FaultPlans :
         LET w == EndHandlerFinalize(W(plan)) IN
         /\ Ran(w) /\ Store(w)
         /\ endPc' = IF w.threw THEN "threw" ELSE "done"
    /\ UNCHANGED <<sampleSize, batchSize, parserWriter, parser, parsedQ, readerAlive,
                   inbox, initPc, hostPc, sent, badSent, chunksLost, scanVars,
                   flatVars, swVars, sqlVars>>

\* case 'export'
OnExport ==
    /\ NextTask("export")
    /\ inbox' = Tail(inbox)
    /\ \E plan \in FaultPlans :
         LET w == exportDatabase(W(plan)) IN
         Ran(w) /\ Store(w)
    /\ UNCHANGED <<sampleSize, batchSize, parserWriter, parser, parsedQ, readerAlive,
                   initPc, endPc, hostPc, sent, badSent, chunksLost, scanVars,
                   flatVars, swVars, sqlVars>>

(***************************************************************************)
(* Specifications                                                          *)
(***************************************************************************)
FlatIdle ==
    /\ flatPc = "idle"
    /\ flatIn = Obj(<<>>)
    /\ flatOut = <<>>
    /\ flatTypes = <<>>

\* Before the first visit: nothing registered, nothing cached.
SwInit ==
    /\ swActive = FALSE
    /\ cache = {}
    /\ online = TRUE
    /\ okOnline = {}
    /\ offlineLog = {}

\* let tableName = 'data' (line 8); no statement built yet.
DefaultTableName == <<"d", "a", "t", "a">>

SqlIdle ==
    /\ tableName = DefaultTableName
    /\ sqlPc = "idle"
    /\ sqlText = <<>>

Init == WorkerInit /\ ScanIdle /\ FlatIdle /\ SwInit /\ SqlIdle

Next ==
    \/ HostInit
    \/ HostChunk
    \/ HostEnd
    \/ HostExport
    \/ OnInit
    \/ InitSqlDone
    \/ ImportDone
    \/ OnChunk
    \/ ReaderLoop
    \/ OnEnd
    \/ EndTimer
    \/ OnExport

Spec == Init /\ [][Next]_vars

(***************************************************************************)
(* SpecInfer: schemaBuilder.add alone, fed flat rows in any order.         *)
(* stream is the history of the rows added.                                *)
(***************************************************************************)
\* Flat rows over the keys a and b; a is seen as 1, 2.5, "x", true or null.
SampleRows ==
    { <<Entry(kA, Num(10))>>,
      <<Entry(kA, Num(25))>>,
      <<Entry(kA, Str(1))>>,
      <<Entry(kA, Bool(TRUE))>>,
      <<Entry(kA, NullV)>>,
      <<Entry(kB, Num(10)), Entry(kA, Num(30))>> }

buildSchema ==
    /\ Len(stream) < MaxSample
    /\ \E row \in SampleRows :
         /\ columns' = schemaBuilderAdd(columns, row)
         /\ stream' = Append(stream, row)
    /\ UNCHANGED <<db, sampleSize, batchSize, schema, objectCount, rowsProcessed,
                   currentBatch, existingColumnsSet, pendingColumns, parserWriter,
                   parser, parsedQ, readerAlive, inbox, outbox, initPc, endPc,
                   hostPc, sent, badSent, sampled, faults, sqlErrors, chunksLost, lastFlush,
                   queued, scanVars,
                   flatVars, swVars, sqlVars>>

SpecInfer == Init /\ [][buildSchema]_vars

ScanNext == FeedChunk \/ ScanEnd

InitScan == ScanInit /\ WorkerInit /\ FlatIdle /\ SwInit /\ SqlIdle

SpecScan == InitScan /\ [][ScanNext]_vars

(***************************************************************************)
(* SpecFlat: flattenObject called on a nested object, then detectType on   *)
(* every value of the row it returned.                                     *)
(***************************************************************************)
kC == <<"c">>
kD == <<"d">>
kA_B == <<"a", "_", "b">>

\* null, 1, 2.5, true, false, "x", [1], [{"b":1}]
FlatLeaves ==
    { NullV, Num(10), Num(25), Bool(TRUE), Bool(FALSE), Str(1),
      Arr(<<Num(10)>>), Arr(<<Obj(<<Entry(kB, Num(10))>>)>>) }

\* {"b":leaf}, {} and {"b":1,"c":{"d":2}}
FlatNested ==
    { Obj(<<Entry(kB, v)>>) : v \in FlatLeaves }
    \cup { Obj(<<>>),
           Obj(<<Entry(kB, Num(10)), Entry(kC, Obj(<<Entry(kD, Num(20))>>))>>) }

FlatEntries == [k : {kA, kA_B, kProto}, val : FlatLeaves \cup FlatNested]

\* Objects of up to MaxEntries entries with distinct keys.
NestedObjects ==
    { Obj(es) : es \in UNION { { f \in [1..n -> FlatEntries] :
                                   \A i, j \in 1..n : f[i].k = f[j].k => i = j }
                               : n \in 1..MaxEntries } }

InitFlat ==
    /\ flatPc = "in"
    /\ flatIn \in NestedObjects
    /\ flatOut = <<>>
    /\ flatTypes = <<>>
    /\ WorkerInit /\ ScanIdle /\ SwInit /\ SqlIdle

\* const flatObj = flattenObject(obj)
FlattenCall ==
    /\ flatPc = "in"
    /\ flatOut' = flattenObject(flatIn.kids, <<>>)
    /\ flatPc' = "flat"
    /\ UNCHANGED <<flatIn, flatTypes, workerVars, scanVars, swVars, sqlVars>>

\* const type = detectType(value), for every key of the row
DetectCall ==
    /\ flatPc = "flat"
    /\ flatTypes' = [i \in 1..Len(flatOut) |-> detectType(flatOut[i].val)]
    /\ flatPc' = "typed"
    /\ UNCHANGED <<flatIn, flatOut, workerVars, scanVars, swVars, sqlVars>>

NextFlat == FlattenCall \/ DetectCall

SpecFlat == InitFlat /\ [][NextFlat]_vars

(***************************************************************************)
(* SpecOffline: the service worker of sw.js (lines 1-167) and the requests *)
(* the page and the database worker make when they start.                  *)
(***************************************************************************)
ShellUrl == "/json-to-sqlite/"
DbWorkerUrl == "/json-to-sqlite/workers/db-worker.js"
SqlJsUrl == "https://cdn.jsdelivr.net/npm/sql.js@1.10.3/dist/sql-wasm.js"
SqlWasmUrl == "https://cdn.jsdelivr.net/npm/sql.js@1.10.3/dist/sql-wasm.wasm"
ParserUrl == "https://esm.sh/@streamparser/json-whatwg@0.0.22"

CORE_ASSETS ==
    { ShellUrl,
      "/json-to-sqlite/manifest.json",
      "/json-to-sqlite/icon-192.svg",
      "/json-to-sqlite/icon-512.svg",
      DbWorkerUrl }

CDN_RESOURCES ==
    { "https://esm.sh/sql.js@1.10.3",
      "https://esm.sh/@streamparser/json@0.0.22",
      "https://cdnjs.cloudflare.com/ajax/libs/sql.js/1.10.3/sql-wasm.wasm" }

\* What is requested at start-up: the page (a navigation), new Worker(...)
\* at page.tsx:174, importScripts at db-worker.js:5, the WASM binary that
\* locateFile names at db-worker.js:94 and import() at db-worker.js:42.
StartupRequests == {ShellUrl, DbWorkerUrl, SqlJsUrl, SqlWasmUrl, ParserUrl}

hostname(url) ==
    IF url \in {SqlJsUrl, SqlWasmUrl} THEN "cdn.jsdelivr.net"
    ELSE IF url \in {ParserUrl, "https://esm.sh/sql.js@1.10.3",
                     "https://esm.sh/@streamparser/json@0.0.22"} THEN "esm.sh"
    ELSE IF url = "https://cdnjs.cloudflare.com/ajax/libs/sql.js/1.10.3/sql-wasm.wasm"
         THEN "cdnjs.cloudflare.com"
    ELSE "location.origin"

\* request.headers.get('accept') includes text/html: the navigation.
isHTML(url) == url = ShellUrl
isCDN(url) == hostname(url) \in {"esm.sh", "cdnjs.cloudflare.com"}
isAppResource(url) == hostname(url) = "location.origin"
shouldCache(url) == isAppResource(url) \/ isCDN(url)

\* response.status as the fetch handler sees it when the network answers:
\* importScripts of a cross-origin script is a no-cors request, whose
\* response is opaque (status 0).
ResponseStatus(url) == IF url = SqlJsUrl THEN 0 ELSE 200

\* The install and activate handlers, after the page registered sw.js: the
\* core assets are cached, each CDN resource is cached unless its fetch
\* fails, then skipWaiting and clients.claim.
SwInstall ==
    /\ ~swActive
    /\ online
    /\ ShellUrl \in okOnline
    /\ \E got \in SUBSET CDN_RESOURCES : cache' = cache \cup CORE_ASSETS \cup got
    /\ swActive' = TRUE
    /\ UNCHANGED <<online, okOnline, offlineLog, workerVars, scanVars, flatVars, sqlVars>>

\* How the fetch handler answers a GET of a controlled client.
Answer(url) ==
    IF ~swActive THEN (IF online THEN "network" ELSE "failed")
    ELSE IF isHTML(url)
         THEN (IF online THEN "network" ELSE IF url \in cache THEN "cache" ELSE "failed")
    ELSE IF url \in cache THEN "cache"
    ELSE IF online THEN "network"
    ELSE "failed"

\* One start-up request of the page or of the database worker.
ClientFetch ==
    /\ \E url \in StartupRequests :
         /\ url # ShellUrl => ShellUrl \in okOnline \/ ~online
         /\ cache' = IF /\ swActive
                        /\ Answer(url) = "network"
                        /\ ResponseStatus(url) = 200
                        /\ isHTML(url) \/ shouldCache(url)
                     THEN cache \cup {url} ELSE cache
         /\ okOnline' = IF online /\ Answer(url) # "failed"
                        THEN okOnline \cup {url} ELSE okOnline
         /\ offlineLog' = IF ~online
                          THEN offlineLog \cup {[url |-> url, from |-> Answer(url)]}
                          ELSE offlineLog
    /\ UNCHANGED <<swActive, online, workerVars, scanVars, flatVars, sqlVars>>

\* The network becomes unavailable.
GoOffline ==
    /\ online
    /\ online' = FALSE
    /\ UNCHANGED <<swActive, cache, okOnline, offlineLog, workerVars, scanVars,
                   flatVars, sqlVars>>

NextOffline == SwInstall \/ ClientFetch \/ GoOffline

SpecOffline == Init /\ [][NextOffline]_vars

(***************************************************************************)
(* SpecDamaged: as Spec, for streams that may hold malformed objects.      *)
(***************************************************************************)
NextDamaged == Next \/ HostChunkMalformed

SpecDamaged == Init /\ [][NextDamaged]_vars

(***************************************************************************)
(* SpecInherited: as Spec, for streams with a key that Object.prototype    *)
(* defines too:  {"a":1}  {"a":true}  {"constructor":"x"}                  *)
(***************************************************************************)
InheritedObjects ==
    { Obj(<<Entry(kA, Num(10))>>),
      Obj(<<Entry(kA, Bool(TRUE))>>),
      Obj(<<Entry(kConstructor, Str(1))>>) }

HostChunkInherited ==
    /\ hostPc = "streaming"
    /\ sent < MaxObjects
    /\ \E obj \in InheritedObjects :
         inbox' = Append(inbox, HostMsg("chunk", 0, 0, obj))
    /\ sent' = sent + 1
    /\ UNCHANGED <<loaderVars, sampleSize, batchSize, parserWriter, parser, parsedQ,
                   readerAlive, outbox, initPc, endPc, hostPc, badSent, chunksLost,
                   scanVars,
                   flatVars, swVars, sqlVars>>

NextInherited ==
    \/ HostInit
    \/ HostChunkInherited
    \/ HostEnd
    \/ HostExport
    \/ OnInit
    \/ InitSqlDone
    \/ ImportDone
    \/ OnChunk
    \/ ReaderLoop
    \/ OnEnd
    \/ EndTimer
    \/ OnExport

SpecInherited == Init /\ [][NextInherited]_vars

(***************************************************************************)
(* Vocabulary of the properties                                            *)
(***************************************************************************)
Completes == SelectSeq(outbox, LAMBDA m : m.type = "complete")
Posted(type) == \E i \in 1..Len(outbox) : outbox[i].type = type
PostedError(what) ==
    \E i \in 1..Len(outbox) : outbox[i].type = "error" /\ outbox[i].what = what

\* The end handler has returned (or died on an exception).
EndHandled == endPc \in {"ignored", "done", "threw"}
\* finalizeProcessing has run to its end at least once.
Finalized == endPc \in {"done", "threw"}

Table == db[1]
TableNames == SqlNames(Table.cols)

\* The cell of a stored row in the column of that SQL name.
Cell(r, sqlName) ==
    r.vals[CHOOSE i \in 1..Len(Table.cols) : Table.cols[i].name = sqlName]

\* The columns schemaBuilder infers from the rows in their order.
RECURSIVE InferFrom(_, _)
InferFrom(cols, rows) ==
    IF rows = <<>> THEN cols
    ELSE InferFrom(schemaBuilderAdd(cols, Head(rows)), Tail(rows))

\* The values seen for a key in the rows of the stream, in order.
RECURSIVE Observations(_, _)
Observations(rows, key) ==
    IF rows = <<>> THEN <<>>
    ELSE (IF Has(Head(rows), key) THEN <<Get(Head(rows), key)>> ELSE <<>>)
         \o Observations(Tail(rows), key)

NonNullTypes(obs) == {detectType(obs[i]) : i \in {j \in 1..Len(obs) : obs[j].t # "null"}}

(***************************************************************************)
(* C1 (SpecScan)                                                           *)
(***************************************************************************)
\* C1: however the text [obj, obj, ...] is cut into chunks, once all of it
\* has been fed the object texts handed on are those that feeding the whole
\* text as one chunk hands on, namely the top-level objects in their order.
C1_ChunkBoundaryInvariance ==
    scanRest = <<>> =>
        /\ handed = WholeFeed(ArrayText(scanObjs)).handed
        /\ handed = scanObjs

\* Fed as one chunk, the text yields exactly its top-level objects.
WholeFeedIsExact ==
    /\ WholeFeed(ArrayText(scanObjs)).handed = scanObjs
    /\ WholeFeed(ArrayText(scanObjs)).skipped = <<>>

(***************************************************************************)
(* C2 - C7, C10 (Spec)                                                     *)
(***************************************************************************)
\* A run in which every chunk reached the parser and no SQL statement or
\* export failed.
CleanRun == chunksLost = 0 /\ parser # "errored" /\ faults = 0 /\ sqlErrors = 0

\* C2: in a run with no engine failure, once the end of the stream has been
\* processed the table holds one row per object of the input and the
\* completion notification carries that number as totalRows.
C2_OneRowPerObject ==
    (endPc = "done" /\ CleanRun) =>
        /\ Len(Table.rows) = sent
        /\ Len(Completes) = 1
        /\ Completes[1].n = sent

\* The keys that first appear in an object that is not part of the sample.
LateKeys == UNION {Keys(stream[i]) : i \in 1..Len(stream)} \ Names(columns)

\* Every key that came after materialization has its column, and every
\* stored row holds there the value bound from its object (NULL when the
\* object lacks the key).
Backfilled ==
    \A k \in LateKeys :
        /\ sanitize(k) \in Range(TableNames)
        /\ \A i \in 1..Len(Table.rows) :
             LET r == Table.rows[i] IN
             Cell(r, sanitize(k)) = BindValue(stream[r.src], Col(k, "TEXT"))

\* C3: after the run completes, every key that first appeared in an object
\* that arrived after materialization has its column, NULL in the rows of
\* the objects that lack it and the object's value in the others.
C3_Backfill ==
    (Finalized /\ Len(Completes) >= 1 /\ Posted("schema")) => Backfilled

\* The backfill is only ever missed in a run in which a statement failed.
BackfillWithoutFailure ==
    (Finalized /\ Len(Completes) >= 1 /\ Posted("schema") /\ sqlErrors = 0)
        => Backfilled

\* A completed run where a late key was backfilled: some stored row made
\* before the column existed reads NULL there, another holds a value.
BackfillHappens ==
    /\ Finalized /\ Len(Completes) >= 1 /\ Posted("schema") /\ sqlErrors = 0
    /\ \E k \in LateKeys :
         /\ sanitize(k) \in Range(TableNames)
         /\ \E i, j \in 1..Len(Table.rows) :
              /\ ~Has(stream[Table.rows[i].src], k)
              /\ Cell(Table.rows[i], sanitize(k)) = NullV
              /\ Has(stream[Table.rows[j].src], k)
              /\ Cell(Table.rows[j], sanitize(k)) # NullV

\* C4: when the INSERT of a row of a flush fails, none of the rows of that
\* flush is in the table afterwards (the table holds the rows it held when
\* the flush began) and the cumulative row count is unchanged.
C4_BatchAtomicity ==
    lastFlush.outcome = "failed" =>
        /\ TableSrcs(Table) = lastFlush.before
        /\ \A i \in 1..Len(lastFlush.srcs) :
             lastFlush.srcs[i] \notin Range(TableSrcs(Table))
        /\ rowsProcessed = lastFlush.count

\* A flush that failed on its second row: the first had been inserted.
C4_Witness == lastFlush.outcome = "failed" /\ lastFlush.failedAt >= 2

\* C5: migrations and inserts of a flush are one all-or-nothing unit: after
\* a flush whose rows are absent from the table, no column added by that
\* flush is in the table.
C5_FlushIsOneUnit ==
    lastFlush.outcome = "failed" => TableNames = lastFlush.colsBefore

\* What the flush is instead: two units. Its migrations are all-or-nothing
\* (the table has the columns it had, or those and every pending one) and
\* so are its inserts (the rows it had, or those and every buffered one).
FlushIsTwoUnits ==
    lastFlush.outcome # "none" =>
        /\ \/ TableNames = lastFlush.colsBefore
           \/ TableNames = lastFlush.colsBefore \o lastFlush.pendingBefore
        /\ lastFlush.outcome = "ok" =>
               TableSrcs(Table) = lastFlush.before \o lastFlush.srcs
        /\ lastFlush.outcome # "ok" => TableSrcs(Table) = lastFlush.before

\* A flush whose columns were added and whose rows were not.
ColumnsWithoutRows ==
    /\ lastFlush.outcome = "failed"
    /\ lastFlush.pendingBefore # <<>>
    /\ TableNames = lastFlush.colsBefore \o lastFlush.pendingBefore

\* C6: when the table is created for a stream of at least sampleSize
\* objects, the inferencer has observed exactly objects 1..sampleSize and
\* the base schema is what they yield.
C6_SampleIsFirstN ==
    (schema # <<>> /\ objectCount >= sampleSize) =>
        /\ sampled = 1..sampleSize
        /\ columns = InferFrom(<<>>, SubSeq(stream, 1, sampleSize))

ShortStream == Finalized /\ 0 < objectCount /\ objectCount < sampleSize

C10_CompletionReached ==
    EndHandled =>
        /\ Len(Completes) = 1
        /\ Completes[1].n = rowsProcessed
        /\ Completes[1].size = ExportSize(Table)

(***************************************************************************)
(* C8, C9 (SpecInfer)                                                      *)
(***************************************************************************)
\* A column seen with two different non-null types is TEXT.
ConflictIsText ==
    \A c \in Names(columns) :
        Cardinality(NonNullTypes(Observations(stream, c))) >= 2
            => TypeOf(columns, c) = "TEXT"

\* A column that is TEXT stays TEXT whatever is observed next.
TextStaysText ==
    \A c \in Names(columns) :
        TypeOf(columns, c) = "TEXT" => TypeOf(columns', c) = "TEXT"

\* C8: a column observed with two different non-null types (INTEGER and
\* TEXT, INTEGER and REAL, in either order) is TEXT, and once TEXT it stays
\* TEXT for every later observation.
C8_ConflictResolvesToText == []ConflictIsText /\ [][TextStaysText]_vars

\* INTEGER then REAL, and REAL then INTEGER, each followed by one more
\* observation.
C8_Witness ==
    /\ Len(stream) = 3
    /\ Observations(stream, kA)[1].t = "num"
    /\ Observations(stream, kA)[2].t = "num"
    /\ detectType(Observations(stream, kA)[1]) # detectType(Observations(stream, kA)[2])
    /\ TypeOf(columns, kA) = "TEXT"

\* C9: a column first observed as null and afterwards only with non-null
\* values of one type T, INTEGER or REAL, has type T.
C9_FirstNonNullSetsType ==
    \A c \in Names(columns) :
        LET obs == Observations(stream, c) IN
        \A T \in {"INTEGER", "REAL"} :
            ( /\ Len(obs) >= 2
              /\ obs[1].t = "null"
              /\ \A i \in 2..Len(obs) : obs[i].t # "null" /\ detectType(obs[i]) = T )
            => TypeOf(columns, c) = T

(***************************************************************************)
(* C11 - C15, C17 (Spec)                                                   *)
(***************************************************************************)
\* The i-th message posted reports a failed migration or a failed insert.
TxnFailureAt(i) ==
    /\ outbox[i].type = "error"
    /\ outbox[i].what \in {"add-columns", "insert-batch"}

\* C11: once a migration failure or an insert failure has been reported,
\* nothing that follows it reports rows inserted (progress), an ALTER TABLE
\* issued (a column added, or another failed migration) or the completion
\* of the run.
C11_FailureTerminatesRun ==
    \A i, j \in 1..Len(outbox) :
        (i < j /\ TxnFailureAt(i)) =>
            /\ outbox[j].type \notin {"progress", "newcol", "complete"}
            /\ ~(outbox[j].type = "error" /\ outbox[j].what = "add-columns")

\* A step in which a flush ran after an earlier one had failed.
FlushAfterFailure ==
    /\ lastFlush.outcome = "failed"
    /\ lastFlush' # lastFlush \/ sqlErrors' # sqlErrors
    /\ lastFlush'.outcome \in {"ok", "failed"}

\* C12: the rows of a failed flush are never given to INSERT again: a flush
\* that runs after a failed one has none of its rows.
C12_NoRetry ==
    [][FlushAfterFailure =>
          Range(lastFlush.srcs) \cap Range(lastFlush'.srcs) = {}]_vars

\* C13: every column of schema is a column of the engine's table.
C13_SchemaColumnsExist ==
    (schema # <<>> /\ db # <<>>) =>
        \A i \in 1..Len(schema[1]) :
            sanitize(schema[1][i].name) \in Range(TableNames)

\* C14: no column name occurs twice in schema.
C14_SchemaUniqueByName ==
    schema # <<>> => NoDuplicates([i \in 1..Len(schema[1]) |-> schema[1][i].name])

\* C15: once createTable has run, every name in schema is in
\* existingColumnsSet, and every name in existingColumnsSet is in schema or
\* in pendingColumns.
C15_SetMatchesSchema ==
    schema # <<>> =>
        /\ Names(schema[1]) \subseteq existingColumnsSet
        /\ existingColumnsSet \subseteq Names(schema[1]) \cup Names(pendingColumns)

\* C17: after createTable has found no column and reported it, there is no
\* table, no object is buffered, no column is queued and no ALTER TABLE or
\* INSERT is issued (with no table each of them would fail).
C17_EmptySchemaHalts ==
    PostedError("empty-schema") =>
        /\ ~Table.exists
        /\ currentBatch = <<>>
        /\ pendingColumns = <<>>
        /\ sqlErrors = 0

(***************************************************************************)
(* C19 (Spec)                                                              *)
(***************************************************************************)
\* The step that dispatches a 'chunk' message while parserWriter is null.
PrematureChunkStep ==
    /\ inbox # <<>>
    /\ Head(inbox).type = "chunk"
    /\ ~parserWriter
    /\ inbox' = Tail(inbox)

\* C19: a chunk dispatched before initialization has completed is dropped
\* (nothing reaches the parser) and leaves the object count, the schema,
\* the membership set, the pending queue, the row buffer and the table as
\* they were.
C19_PrematureChunkChangesNothing ==
    [][PrematureChunkStep =>
          /\ UNCHANGED <<objectCount, schema, columns, existingColumnsSet,
                         pendingColumns, currentBatch, db, rowsProcessed>>
          /\ UNCHANGED <<parser, parsedQ>>]_vars

\* A chunk has been dropped after the database was created and before the
\* parser was ready.
C19_Witness == chunksLost >= 1 /\ db # <<>> /\ ~parserWriter

(***************************************************************************)
(* C16 (Spec)                                                              *)
(***************************************************************************)
\* C16: over the whole run no column name is pushed to pendingColumns more
\* than once, whatever rows and flushes (failed or not) come in between.
C16_NeverQueuedTwice == NoDuplicates(queued)

\* Two keys were queued, and a key that had been queued came again in a
\* later object, after the flush that followed its queueing had failed.
C16_Witness ==
    /\ Len(queued) >= 2
    /\ sqlErrors >= 1
    /\ \E i, j \in 1..Len(stream) :
         /\ i < j
         /\ i \notin sampled /\ j \notin sampled
         /\ Keys(stream[i]) \cap Keys(stream[j]) \cap Range(queued) # {}

(***************************************************************************)
(* C18 (SpecDamaged)                                                       *)
(***************************************************************************)
\* C18: a malformed object is skipped and the run goes on: when the end of
\* a stream that held malformed objects has been processed, with every
\* chunk delivered to the parser and no engine failure, every well-formed
\* object of the stream has been handed to processObject.
C18_MalformedObjectIsSkipped ==
    (endPc = "done" /\ badSent >= 1 /\ chunksLost = 0 /\ faults = 0)
        => objectCount = sent - badSent

(***************************************************************************)
(* C20 (SpecScan)                                                          *)
(***************************************************************************)
\* The text of the file that was fed before the end of the stream.
Fed == SubSeq(ArrayText(scanObjs), 1, Len(ArrayText(scanObjs)) - Len(scanRest))

\* The file stops inside a top-level object.
Truncated == WholeFeed(Fed).bracketDepth > 0

\* C20: when the stream is finished while a top-level object is still open
\* (the file is truncated and the scanner's depth is above 0), the end
\* handler reports an error and does not report completion.
C20_TruncationIsReported ==
    (endReport # <<>> /\ Truncated /\ bracketDepth > 0)
        => /\ "error" \in Range(endReport)
           /\ "complete" \notin Range(endReport)

(***************************************************************************)
(* C21 (SpecInherited)                                                     *)
(***************************************************************************)
\* The value a row is to give a column: NULL when the row lacks the key or
\* holds null, 1 or 0 for true or false, the row's value otherwise.
ExpectedValue(row, name) ==
    IF ~Has(row, name) THEN NullV
    ELSE IF Get(row, name).t = "null" THEN NullV
    ELSE IF Get(row, name).t = "bool" THEN (IF Get(row, name).n = 1 THEN Num(10) ELSE Num(0))
    ELSE Get(row, name)

\* What the last flush handed to the INSERT follows the rule, row by row.
BoundAsExpected ==
    \A k \in 1..Len(lastFlush.bound) :
        LET b == lastFlush.bound[k] IN
        /\ b.cols = [i \in 1..Len(schema[1]) |-> schema[1][i].name]
        /\ Len(b.vals) = Len(b.cols)
        /\ \A i \in 1..Len(b.cols) : b.vals[i] = ExpectedValue(stream[b.src], b.cols[i])

\* C21: for every row of a flush, the values bound to the INSERT are one per
\* Schema column, in Schema order: NULL when the row lacks the key or holds
\* null, 1 or 0 when it holds true or false, the row's value otherwise.
C21_BoundValuesFollowSchema ==
    lastFlush.outcome \in {"ok", "failed"} => BoundAsExpected

(***************************************************************************)
(* C22 - C24 (SpecFlat)                                                    *)
(***************************************************************************)
\* The leaves of an object in document order, each with the key its path
\* gives: the keys on the path joined with '_'.  A leaf is a value that is
\* not an object; arrays are leaves.
RECURSIVE LeavesOf(_, _)
LeavesOf(entries, prefix) ==
    IF entries = <<>> THEN <<>>
    ELSE LET e == Head(entries)
             path == IF prefix = <<>> THEN e.k ELSE prefix \o <<"_">> \o e.k
         IN  (IF e.val.t = "obj" THEN LeavesOf(e.val.kids, path)
              ELSE <<[k |-> path, val |-> e.val]>>)
             \o LeavesOf(Tail(entries), prefix)

Leaves == Range(LeavesOf(flatIn.kids, <<>>))

Flattened == flatPc \in {"flat", "typed"}

\* C22: flattenObject maps every scalar leaf to the key formed by joining the
\* keys on its path with '_', the row has no other keys, and no value of the
\* row is an object.
C22_FlattenIsPrefixCorrect ==
    Flattened =>
        /\ \A l \in Leaves :
              l.val.t # "arr" => Has(flatOut, l.k) /\ Get(flatOut, l.k) = l.val
        /\ Keys(flatOut) \subseteq {l.k : l \in Leaves}
        /\ \A i \in 1..Len(flatOut) : flatOut[i].val.t # "obj"

\* No two leaves have the same joined key, and none is named __proto__.
DistinctOwnKeys ==
    /\ \A i, j \in 1..Len(LeavesOf(flatIn.kids, <<>>)) :
          LeavesOf(flatIn.kids, <<>>)[i].k = LeavesOf(flatIn.kids, <<>>)[j].k => i = j
    /\ \A l \in Leaves : l.k # kProto

\* For such objects the row is exactly the leaves under their joined keys.
FlattenOfDistinctKeys ==
    (Flattened /\ DistinctOwnKeys) =>
        /\ \A l \in Leaves :
              /\ Has(flatOut, l.k)
              /\ Get(flatOut, l.k) = IF l.val.t = "arr" THEN JSONStringify(l.val) ELSE l.val
        /\ Keys(flatOut) = {l.k : l \in Leaves}

\* The example: {"a":{"b":1,"c":{"d":2}}} yields {"a_b":1,"a_c_d":2}.
FlattenExample ==
    (Flattened /\ flatIn = Obj(<<Entry(kA, Obj(<<Entry(kB, Num(10)),
                                   Entry(kC, Obj(<<Entry(kD, Num(20))>>))>>))>>))
        => flatOut = <<Entry(<<"a", "_", "b">>, Num(10)),
                       Entry(<<"a", "_", "c", "_", "d">>, Num(20))>>

\* C23: an array at any depth becomes one entry, under the joined key of its
\* path, whose value is the JSON text of the whole array, and no key of the
\* row comes from an element of an array.
C23_ArraysAreNotFlattened ==
    Flattened =>
        /\ \A l \in Leaves :
              l.val.t = "arr" =>
                  Has(flatOut, l.k) /\ Get(flatOut, l.k) = JSONStringify(l.val)
        /\ Keys(flatOut) \subseteq {l.k : l \in Leaves}

\* No key of the row comes from inside an array, whatever the keys are.
NoKeyFromArrayElement == Flattened => Keys(flatOut) \subseteq {l.k : l \in Leaves}

\* The type the rule gives a value; a number is held in tenths.
TypeByRule(v) ==
    CASE v.t = "null" -> "TEXT"
      [] v.t = "num" /\ v.n % 10 = 0 -> "INTEGER"
      [] v.t = "num" /\ v.n % 10 # 0 -> "REAL"
      [] v.t = "bool" -> "INTEGER"
      [] OTHER -> "TEXT"

\* C24: detectType returns TEXT for null, INTEGER for a number that is an
\* integer, REAL for a number with a fractional part, INTEGER for a boolean
\* and TEXT for every other value.
C24_TypeFromValue ==
    flatPc = "typed" =>
        /\ Len(flatTypes) = Len(flatOut)
        /\ \A i \in 1..Len(flatOut) : flatTypes[i] = TypeByRule(flatOut[i].val)

\* A row with a fractional number and a boolean has been typed.
C24_Witness ==
    /\ flatPc = "typed"
    /\ \E i, j \in 1..Len(flatOut) :
          /\ flatOut[i].val = Num(25) /\ flatTypes[i] = "REAL"
          /\ flatOut[j].val.t = "bool" /\ flatTypes[j] = "INTEGER"

(***************************************************************************)
(* C25 (Spec)                                                              *)
(***************************************************************************)
\* The type of the first value seen for a key in the objects that were not
\* part of the sample.
FirstSeenType(name) ==
    LET js == {j \in 1..Len(stream) : j \notin sampled /\ Has(stream[j], name)}
    IN  detectType(Get(stream[CHOOSE j \in js : \A k \in js : j <= k], name))

\* The columns found after the table was created: those waiting in the queue
\* and those the migrations appended to Schema.
LateColumns ==
    Range(pendingColumns)
        \cup {schema[1][i] : i \in (Len(columns) + 1)..Len(schema[1])}

\* C25: once the table is materialized no entry of Schema changes its type,
\* and a column found later has, in the queue and in Schema, the type of the
\* first value seen for it.
C25_TypesFixedAtFirstSighting ==
    [][/\ schema # <<>> =>
             \A i \in 1..Len(schema[1]) :
                 i <= Len(schema'[1]) /\ schema'[1][i] = schema[1][i]
       /\ schema' # <<>> =>
             (\A c \in LateColumns : c.type = FirstSeenType(c.name))']_vars

\* A column added by a migration has been seen with values of two types.
C25_Witness ==
    /\ schema # <<>>
    /\ \E i \in (Len(columns) + 1)..Len(schema[1]) :
          \E j, k \in 1..Len(stream) :
              /\ j < k /\ j \notin sampled
              /\ Has(stream[j], schema[1][i].name) /\ Has(stream[k], schema[1][i].name)
              /\ detectType(Get(stream[j], schema[1][i].name))
                     # detectType(Get(stream[k], schema[1][i].name))

(***************************************************************************)
(* C28 (Spec)                                                              *)
(***************************************************************************)
\* The SQL names of the columns that migrations added to the table: those
\* after the columns CREATE TABLE gave it.
AddedNames ==
    IF db # <<>> /\ Table.exists
    THEN {Table.cols[i].name : i \in (Len(columns) + 1)..Len(Table.cols)}
    ELSE {}

NewColumnNotices(sqlName) ==
    {i \in 1..Len(outbox) : outbox[i].type = "newcol" /\ sanitize(outbox[i].name) = sqlName}

\* C28: every new-column notification is for a column a migration added to
\* the table (none for an ALTER TABLE that was rolled back), and every column
\* added to the table has been notified exactly once.
C28_NoticeIffApplied ==
    /\ \A i \in 1..Len(outbox) :
          outbox[i].type = "newcol" => sanitize(outbox[i].name) \in AddedNames
    /\ \A n \in AddedNames : Cardinality(NewColumnNotices(n)) = 1

(***************************************************************************)
(* C26 (Spec)                                                              *)
(***************************************************************************)
\* The worker handles an export request.
ExportStep == inbox # <<>> /\ Head(inbox).type = "export" /\ inbox' = Tail(inbox)

\* What the step posted.
PostedByStep == SubSeq(outbox', Len(outbox) + 1, Len(outbox'))

\* C26: an export request, failing or not, leaves Schema, the membership
\* set, the queue, the row buffer, the row count and the table unchanged; it
\* posts either the export result or, when db.export() fails, an error and no
\* result.
C26_ExportChangesNothing ==
    [][ExportStep =>
          /\ UNCHANGED <<schema, existingColumnsSet, pendingColumns, currentBatch,
                         rowsProcessed, db, columns, objectCount>>
          /\ Len(PostedByStep) = 1
          /\ IF faults' # faults \/ db = <<>>
             THEN PostedByStep[1] = ErrorMsg("export")
             ELSE PostedByStep[1].type = "exported"]_vars

\* An export failed on a database that holds rows.
C26_Witness ==
    /\ PostedError("export")
    /\ db # <<>> /\ Table.exists /\ Len(Table.rows) >= 1
    /\ rowsProcessed >= 1

(***************************************************************************)
(* C27 (Spec)                                                              *)
(***************************************************************************)
\* The rows committed to the table.
Committed == IF db # <<>> THEN Len(Table.rows) ELSE 0

ProgressCounts ==
    LET ps == SelectSeq(outbox, LAMBDA m : m.type = "progress")
    IN  [i \in 1..Len(ps) |-> ps[i].n]

\* C27: a progress or completion notification carries the number of rows
\* committed to the table when it is posted, and the counts of successive
\* progress notifications are strictly increasing.
C27_CountsAreCommittedRows ==
    [][/\ \A j \in (Len(outbox) + 1)..Len(outbox') :
             outbox'[j].type \in {"progress", "complete"} => outbox'[j].n = Committed'
       /\ (\A i, j \in 1..Len(ProgressCounts) :
               i < j => ProgressCounts[i] < ProgressCounts[j])']_vars

\* Two batches were committed, the second after a failed attempt.
C27_Witness ==
    /\ Len(ProgressCounts) >= 2
    /\ PostedError("insert-batch")
    /\ Posted("complete")

(***************************************************************************)
(* C29 (Spec)                                                              *)
(***************************************************************************)
\* C29: the rows of the table are in the order of the stream: of two stored
\* rows the one inserted first was made from the earlier object, within a
\* batch and across batches.
C29_InputOrderPreserved ==
    db # <<>> =>
        \A i, j \in 1..Len(Table.rows) :
            i < j => Table.rows[i].src < Table.rows[j].src

\* Two rows are stored, committed by different flushes.
C29_Witness ==
    /\ db # <<>> /\ Len(Table.rows) >= 2
    /\ Len(SelectSeq(outbox, LAMBDA m : m.type = "progress")) >= 2

(***************************************************************************)
(* C30 (SpecOffline)                                                       *)
(***************************************************************************)
\* The online visit took place: the service worker was installed and every
\* start-up request was answered while the network was there.
VisitedOnline == swActive /\ StartupRequests \subseteq okOnline

\* C30: after an online visit in which a conversion ran, every start-up
\* request made while the network is unavailable is answered from the cache.
C30_StartsOffline ==
    (~online /\ VisitedOnline) =>
        \A rec \in offlineLog : rec.from = "cache"

\* The same-origin start-up URLs are answered from the cache.
OwnAssetsStartOffline ==
    (~online /\ VisitedOnline) =>
        \A rec \in offlineLog :
            rec.url \in {ShellUrl, DbWorkerUrl} => rec.from = "cache"

\* The scripts of cdn.jsdelivr.net are never in the cache.
JsDelivrNeverCached == cache \cap {SqlJsUrl, SqlWasmUrl} = {}

(***************************************************************************)
(* C31 (Spec)                                                              *)
(***************************************************************************)
\* C31: in every interleaving of the worker's initialization with message
\* delivery, no posted chunk is dropped before it reaches the parser and the
\* end message is never ignored.
C31_NoChunkLostAtStartup == chunksLost = 0 /\ endPc # "ignored"

(***************************************************************************)
(* C32 (Spec)                                                              *)
(***************************************************************************)
\* Once the completion notification is posted, no further object is handed
\* to processObject and none is waiting in the parser's output.
NoObjectAfterCompletion ==
    [][Posted("complete") => (objectCount' = objectCount /\ parsedQ = <<>>)]_vars

\* C32: when the completion notification has been posted, every object the
\* parser emitted has been handled by processObject and no row remains in
\* the buffer.
C32_FinalizationWaitsForParser ==
    Posted("complete") => (parsedQ = <<>> /\ currentBatch = <<>>)

(***************************************************************************)
(* C33 (Spec)                                                              *)
(***************************************************************************)
\* Every key of a row handed to the INSERT of the last flush was a column of
\* schema when the row was bound.
KeysAreColumnsWhenBound ==
    lastFlush.outcome = "ok" =>
        \A k \in 1..Len(lastFlush.bound) :
            Keys(stream[lastFlush.bound[k].src]) \subseteq Range(lastFlush.bound[k].cols)

\* Every non-null field of a stored row is in the table, in the column of
\* its key.
FieldsAreStored ==
    db # <<>> =>
        \A i \in 1..Len(Table.rows) :
            LET r == Table.rows[i]
                row == stream[r.src]
            IN  \A key \in Keys(row) :
                    Get(row, key).t # "null" =>
                        /\ sanitize(key) \in Range(TableNames)
                        /\ Cell(r, sanitize(key)) = BindValue(row, Col(key, "TEXT"))

\* C33: whenever a row is inserted every key of the row is a column of
\* schema, and each non-null field of every inserted row is stored in the
\* table, also after a migration failure.
C33_NoFieldDropped == KeysAreColumnsWhenBound /\ FieldsAreStored

(***************************************************************************)
(* C34 (SpecScan)                                                          *)
(***************************************************************************)
\* The JSON grammar's reading of a text: r.depth is the number of braces
\* open outside string literals, r.closed the number of times a closing
\* brace brought it back to 0.  Inside a string a backslash takes the
\* character after it, whatever it is.
RECURSIVE JsonRead(_, _)
JsonRead(text, r) ==
    IF text = <<>> THEN r
    ELSE LET c == Head(text)
             r1 == IF r.esc THEN [r EXCEPT !.esc = FALSE]
                   ELSE IF r.inStr
                        THEN (IF c = BSLASH THEN [r EXCEPT !.esc = TRUE]
                              ELSE IF c = QUOTE THEN [r EXCEPT !.inStr = FALSE]
                              ELSE r)
                   ELSE IF c = QUOTE THEN [r EXCEPT !.inStr = TRUE]
                   ELSE IF c = "{" THEN [r EXCEPT !.depth = @ + 1]
                   ELSE IF c = "}"
                        THEN [r EXCEPT !.depth = @ - 1,
                                       !.closed = IF r.depth = 1 THEN @ + 1 ELSE @]
                   ELSE r
         IN  JsonRead(Tail(text), r1)

JsonDepth(text) ==
    JsonRead(text, [depth |-> 0, closed |-> 0, inStr |-> FALSE, esc |-> FALSE]).depth

JsonClosed(text) ==
    JsonRead(text, [depth |-> 0, closed |-> 0, inStr |-> FALSE, esc |-> FALSE]).closed

\* In one call the scanner's depth after every prefix of the text is the
\* grammar's depth.
DepthIsStringAwareInOneCall ==
    LET text == ArrayText(scanObjs) IN
    \A n \in 0..Len(text) :
        WholeFeed(SubSeq(text, 1, n)).bracketDepth = JsonDepth(SubSeq(text, 1, n))

\* C34: braces inside string literals never change the depth: after the
\* text fed so far the depth is the number of braces open outside strings,
\* and the objects emitted are those whose matching closing brace has been
\* fed, each as its text from its opening brace through that closing brace.
C34_DepthIsStringAware ==
    /\ bracketDepth = JsonDepth(Fed)
    /\ skipped = <<>>
    /\ handed = SubSeq(scanObjs, 1, JsonClosed(Fed))

(***************************************************************************)
(* C35 (Spec)                                                              *)
(***************************************************************************)
\* The transaction statements of the last flush alternate: a BEGIN, then one
\* COMMIT or ROLLBACK, then the next BEGIN.
EveryBeginIsClosedOnce ==
    /\ Len(lastFlush.txn) % 2 = 0
    /\ \A i \in 1..Len(lastFlush.txn) :
         IF i % 2 = 1 THEN lastFlush.txn[i] = "BEGIN"
         ELSE lastFlush.txn[i] \in {"COMMIT", "ROLLBACK"}

\* C35: every BEGIN of a flush or migration is followed by exactly one COMMIT
\* or ROLLBACK before the next BEGIN, and the engine has no open transaction
\* whenever processObject, finalizeProcessing or exportDatabase starts or
\* has returned, after a success and after a failure.
C35_TransactionsAreClosed ==
    /\ db # <<>> => ~Table.txn
    /\ EveryBeginIsClosedOnce

\* A flush whose migration was rolled back and whose insert was committed.
C35_Witness ==
    /\ lastFlush.txn = <<"BEGIN", "ROLLBACK", "BEGIN", "COMMIT">>
    /\ ~Table.txn
    /\ PostedError("add-columns")

(***************************************************************************)
(* SpecV3: the loader of the worker at sw.js lines 742-1267 once it is     *)
(* initialized.  Its parser hands the objects of the document to           *)
(* processObject one after the other (onValue, lines 786-793); the end     *)
(* handler calls finalizeProcessing (lines 876-887).  Everything           *)
(* processObject calls is the code of db-worker.js unchanged.              *)
(***************************************************************************)
\* processObject(obj) of sw.js lines 899-925: the row is pushed before the
\* test of schema.
processObjectV3(w, obj) ==
    LET count == w.objectCount + 1
        flatObj == flattenObject(obj.kids, <<>>)
        w0 == [w EXCEPT !.objectCount = count, !.stream = Append(@, flatObj)]
        w1 == IF w0.schema = <<>> /\ count < w0.sampleSize
              THEN [w0 EXCEPT !.columns = schemaBuilderAdd(@, flatObj),
                              !.sampled = @ \cup {count}]
              ELSE w0
        w2 == IF w1.schema = <<>> /\ count >= w1.sampleSize
              THEN createTable(w1) ELSE w1
        w3 == [w2 EXCEPT !.currentBatch = Append(@, [src |-> count, row |-> flatObj])]
    IN  IF w3.schema # <<>>
        THEN LET w4 == checkAndAddNewColumns(w3, flatObj)
             IN  IF Len(w4.currentBatch) >= w4.batchSize
                 THEN Flush(w4)
                 ELSE w4
        ELSE w3

InitV3 ==
    /\ db = <<NewDatabase>>
    /\ sampleSize \in SampleSizes
    /\ batchSize \in BatchSizes
    /\ schema = <<>>
    /\ columns = <<>>
    /\ objectCount = 0
    /\ rowsProcessed = 0
    /\ currentBatch = <<>>
    /\ existingColumnsSet = {}
    /\ pendingColumns = <<>>
    /\ parserWriter = FALSE
    /\ parser = "open"
    /\ parsedQ = <<>>
    /\ readerAlive = FALSE
    /\ inbox = <<>>
    /\ outbox = <<>>
    /\ initPc = "ready"
    /\ endPc = "none"
    /\ hostPc = "streaming"
    /\ sent = 0
    /\ badSent = 0
    /\ stream = <<>>
    /\ sampled = {}
    /\ faults = 0
    /\ sqlErrors = 0
    /\ chunksLost = 0
    /\ lastFlush = NoFlush
    /\ queued = <<>>
    /\ ScanIdle /\ FlatIdle /\ SwInit /\ SqlIdle

\* One turn of the onValue loop: processObject(item).
V3Object ==
    /\ endPc = "none"
    /\ objectCount < MaxObjects
    /\ \E obj \in Objects, plan \in FaultPlans :
         LET w == processObjectV3(W(plan), obj) IN
         Ran(w) /\ Store(w)
    /\ UNCHANGED <<sampleSize, batchSize, parserWriter, parser, parsedQ, readerAlive,
                   inbox, initPc, endPc, hostPc, sent, badSent, chunksLost, scanVars,
                   flatVars, swVars, sqlVars>>

\* case 'end': parser.close(), then finalizeProcessing().
V3End ==
    /\ endPc = "none"
    /\ \E plan \in FaultPlans :
         LET w == finalizeProcessing(W(plan)) IN
         /\ Ran(w) /\ Store(w)
         /\ endPc' = IF w.threw THEN "threw" ELSE "done"
    /\ parser' = "closed"
    /\ UNCHANGED <<sampleSize, batchSize, parserWriter, parsedQ, readerAlive,
                   inbox, initPc, hostPc, sent, badSent, chunksLost, scanVars,
                   flatVars, swVars, sqlVars>>

NextV3 == V3Object \/ V3End

SpecV3 == InitV3 /\ [][NextV3]_vars

(***************************************************************************)
(* C36 (SpecV3, Spec)                                                      *)
(***************************************************************************)
\* No statement and no export has failed so far.
NoEngineFailure == faults = 0 /\ sqlErrors = 0

\* C36: in a run with no engine failure, after every processObject call
\* the buffer holds fewer than batchSize rows.
C36_BufferBelowBatchSize ==
    (NoEngineFailure /\ endPc = "none") => Len(currentBatch) < batchSize

\* Once the table exists the bound holds in a run with no engine failure.
BufferBelowBatchSizeOnceMaterialized ==
    (NoEngineFailure /\ endPc = "none" /\ schema # <<>>)
        => Len(currentBatch) < batchSize

(***************************************************************************)
(* C37 (Spec)                                                              *)
(***************************************************************************)
\* The positions of the notifications of a type in the outbox.
PositionsOf(msgs, type) == {i \in 1..Len(msgs) : msgs[i].type = type}

\* At most one schema notification, posted with the table in place, and
\* before every progress and every new-column notification.
SchemaNoticeComesFirst ==
    /\ Cardinality(PositionsOf(outbox, "schema")) <= 1
    /\ Posted("schema") => (db # <<>> /\ Table.exists)
    /\ \A i \in PositionsOf(outbox, "progress") \cup PositionsOf(outbox, "newcol") :
           \E j \in PositionsOf(outbox, "schema") : j < i

\* C37: the schema-ready notification is posted at most once, only after a
\* successful CREATE TABLE, and before every progress and every new-column
\* notification; once schema is set it stays set and once the table exists
\* it keeps existing.
C37_SchemaNoticeOnceAndFirst ==
    [][/\ SchemaNoticeComesFirst'
       /\ schema # <<>> => schema' # <<>>
       /\ (db # <<>> /\ Table.exists) => (db' # <<>> /\ Table'.exists)]_vars

\* The table was created, a column was added later and a batch committed.
C37_Witness ==
    /\ Posted("schema") /\ Posted("newcol") /\ Posted("progress")
    /\ Posted("complete")

(***************************************************************************)
(* SpecSql: the SQL text db-worker.js builds.  A statement is a sequence   *)
(* of pieces [kind, text]: "sql" is text of the template literal, "table"  *)
(* the interpolated ${tableName}, "column" an interpolated                 *)
(* ${sanitize(col.name)}, "type" an interpolated ${col.type} and "param"   *)
(* a '?' placeholder.  The text of a piece is a sequence of strings.       *)
(***************************************************************************)
MaxStatements == 3    \* statements built in one run of SpecSql

Piece(kind, text) == [kind |-> kind, text |-> text]

\* pieces.join(', ')
RECURSIVE JoinPieces(_)
JoinPieces(items) ==
    IF items = <<>> THEN <<>>
    ELSE IF Len(items) = 1 THEN items[1]
    ELSE items[1] \o <<Piece("sql", <<", ">>)>> \o JoinPieces(Tail(items))

\* `"${sanitize(col.name)}"`
QuotedColumn(col) ==
    <<Piece("sql", <<QUOTE>>), Piece("column", sanitize(col.name)),
      Piece("sql", <<QUOTE>>)>>

\* lines 316-321: `CREATE TABLE "${tableName}" (${columns})`
createTableSQL(name, cols) ==
    <<Piece("sql", <<"CREATE TABLE ", QUOTE>>), Piece("table", name),
      Piece("sql", <<QUOTE, " (">>)>>
    \o JoinPieces([i \in 1..Len(cols) |->
                      QuotedColumn(cols[i])
                      \o <<Piece("sql", <<" ">>), Piece("type", <<cols[i].type>>)>>])
    \o <<Piece("sql", <<")">>)>>

\* line 394: `ALTER TABLE "${tableName}" ADD COLUMN "${sanitize(col.name)}" ${col.type}`
alterSQL(name, col) ==
    <<Piece("sql", <<"ALTER TABLE ", QUOTE>>), Piece("table", name),
      Piece("sql", <<QUOTE, " ADD COLUMN ">>)>>
    \o QuotedColumn(col)
    \o <<Piece("sql", <<" ">>), Piece("type", <<col.type>>)>>

\* lines 438-440: `INSERT INTO "${tableName}" (${columnNames}) VALUES (${placeholders})`
insertSQL(name, cols) ==
    <<Piece("sql", <<"INSERT INTO ", QUOTE>>), Piece("table", name),
      Piece("sql", <<QUOTE, " (">>)>>
    \o JoinPieces([i \in 1..Len(cols) |-> QuotedColumn(cols[i])])
    \o <<Piece("sql", <<") VALUES (">>)>>
    \o JoinPieces([i \in 1..Len(cols) |-> <<Piece("param", <<"?">>)>>])
    \o <<Piece("sql", <<")">>)>>

\* What the page's "Table Name" field can hold: empty, t1, my t, t";
TableNameInputs ==
    { <<>>, <<"t", "1">>, <<"m", "y", " ", "t">>, <<"t", QUOTE, ";">> }

\* The schemas createTable can be given: inferred from one or two objects.
SqlSchemas ==
    LET rows == {flattenObject(o.kids, <<>>) : o \in Objects} IN
    {schemaBuilderAdd(<<>>, r) : r \in rows}
    \cup {schemaBuilderAdd(schemaBuilderAdd(<<>>, r), q) : r, q \in rows}

InitSql ==
    /\ tableName = DefaultTableName
    /\ sqlPc = "config"
    /\ sqlText = <<>>
    /\ WorkerInit /\ ScanIdle /\ FlatIdle /\ SwInit

\* case 'init': tableName = data.tableName || 'data'
SqlConfigure ==
    /\ sqlPc = "config"
    /\ \E name \in TableNameInputs :
         tableName' = IF name = <<>> THEN DefaultTableName ELSE name
    /\ sqlPc' = "ready"
    /\ UNCHANGED <<sqlText, workerVars, scanVars, flatVars, swVars>>

\* createTable() with a schema that is not empty, up to db.run.
EmitCreate ==
    /\ sqlPc = "ready"
    /\ schema = <<>>
    /\ \E cols \in SqlSchemas \ {<<>>} :
         /\ schema' = <<cols>>
         /\ sqlText' = Append(sqlText, createTableSQL(tableName, cols))
    /\ UNCHANGED <<tableName, sqlPc, db, sampleSize, batchSize, columns, objectCount,
                   rowsProcessed, currentBatch, existingColumnsSet, pendingColumns,
                   parserWriter, parser, parsedQ, readerAlive, inbox, outbox, initPc,
                   endPc, hostPc, sent, badSent, stream, sampled, faults, sqlErrors,
                   chunksLost, lastFlush, queued, scanVars, flatVars, swVars>>

\* One turn of the loop of applyPendingColumns, for a key of a later object.
EmitAlter ==
    /\ schema # <<>>
    /\ Len(sqlText) < MaxStatements
    /\ \E o \in Objects :
         \E key \in Keys(flattenObject(o.kids, <<>>)) \ Names(schema[1]) :
             LET col == Col(key, detectType(Get(flattenObject(o.kids, <<>>), key))) IN
             /\ sqlText' = Append(sqlText, alterSQL(tableName, col))
             /\ schema' = <<Append(schema[1], col)>>
    /\ UNCHANGED <<tableName, sqlPc, db, sampleSize, batchSize, columns, objectCount,
                   rowsProcessed, currentBatch, existingColumnsSet, pendingColumns,
                   parserWriter, parser, parsedQ, readerAlive, inbox, outbox, initPc,
                   endPc, hostPc, sent, badSent, stream, sampled, faults, sqlErrors,
                   chunksLost, lastFlush, queued, scanVars, flatVars, swVars>>

\* insertBatch() up to db.prepare.
EmitInsert ==
    /\ schema # <<>>
    /\ Len(sqlText) < MaxStatements
    /\ sqlText' = Append(sqlText, insertSQL(tableName, schema[1]))
    /\ UNCHANGED <<tableName, sqlPc, workerVars, scanVars, flatVars, swVars>>

NextSql == SqlConfigure \/ EmitCreate \/ EmitAlter \/ EmitInsert

SpecSql == InitSql /\ [][NextSql]_vars

(***************************************************************************)
(* C38 (SpecSql)                                                           *)
(***************************************************************************)
\* The pieces of the statements built so far.
SqlPieces ==
    UNION {Range(sqlText[i]) : i \in 1..Len(sqlText)}

\* Every interpolated column name is made of characters in [A-Za-z0-9_], and
\* no piece of any statement is a row value.
ColumnNamesAreFiltered ==
    \A p \in SqlPieces :
        /\ p.kind = "column" => Range(p.text) \subseteq AllowedChars
        /\ p.kind \in {"sql", "table", "column", "type", "param"}

\* C38: every identifier interpolated into a CREATE TABLE, ALTER TABLE or
\* INSERT statement, the table name and each column name, is made of
\* characters in [A-Za-z0-9_] only, and no row value is part of the text.
C38_OnlyFilteredIdentifiers ==
    \A p \in SqlPieces :
        /\ p.kind \in {"table", "column"} => Range(p.text) \subseteq AllowedChars
        /\ p.kind \in {"sql", "table", "column", "type", "param"}

(***************************************************************************)
(* C39 (SpecInfer)                                                         *)
(***************************************************************************)
\* The rows observed so far, in every order.
Reorderings(rows) ==
    {[i \in 1..Len(rows) |-> rows[p[i]]] : p \in Permutations(1..Len(rows))}

\* The types inferred are the same for every order of the rows.
SameTypesInEveryOrder(rows) ==
    \A other \in Reorderings(rows) :
        \A c \in Names(columns) :
            TypeOf(InferFrom(<<>>, other), c) = TypeOf(columns, c)

\* A sample in which no value is null gives the same types in every order.
OrderIndependentWithoutNull ==
    (\A i \in 1..Len(stream) : \A k \in Keys(stream[i]) : Get(stream[i], k).t # "null")
        => SameTypesInEveryOrder(stream)

\* C39: for the rows schemaBuilder.add has observed, the type of every
\* column is the same for every order in which it could have observed them.
C39_InferenceIgnoresOrder == SameTypesInEveryOrder(stream)

====
